---- MODULE Spec2Model ----
(***************************************************************************)
(* The 2D sketch topology engine of bobbo-app: the Sketcher class (nodes,  *)
(* entities, constraints), the SketchMath kernel it calls for trim, extend *)
(* and offset, the closed-contour detector and the constraint solver.      *)
(*                                                                         *)
(* Coordinates are fixed-point numbers: one model unit is 0.25, so that    *)
(* SNAP_DISTANCE (0.5) is 2 units and 1.0 is 4 units.  Segment parameters  *)
(* (t, u) are exact fractions [n, d] with d > 0; a coordinate computed     *)
(* from a fraction is rounded to the unit when it is produced.  Distances  *)
(* are only ever compared by the code, so they are kept squared.           *)
(***************************************************************************)
EXTENDS Integers, Sequences, FiniteSets, TLC

\* ------------------------------------------------------------------ bounds
\* The number of operations applied to the empty sketch.
MaxOps == 3

\* --------------------------------------------------------------- constants
SNAP_DISTANCE == 2
EPS_DEN == 10000
MIN_LEN_DEN == 1000
RAY_LENGTH == 10000
One == 2 * SNAP_DISTANCE

VARIABLES nodes, entities, constraints, nextId, last, ops, exported

vars == <<nodes, entities, constraints, nextId, last, ops, exported>>

\* ----------------------------------------------------------------- helpers
Abs(a) == IF a < 0 THEN -a ELSE a

MinOf(S) == CHOOSE m \in S : \A o \in S : m <= o

Pt(px, py) == [x |-> px, y |-> py]

Range(s) == {s[i] : i \in 1..Len(s)}

RECURSIVE SeqFilter(_, _)
SeqFilter(s, keep) ==
  IF s = <<>> THEN <<>>
  ELSE IF Head(s) \in keep THEN <<Head(s)>> \o SeqFilter(Tail(s), keep)
       ELSE SeqFilter(Tail(s), keep)

\* The sketch as one value, so that an operation can call another.
Sk(n, e, c, i) == [nodes |-> n, entities |-> e, constraints |-> c, nextId |-> i]

Cur == Sk(nodes, entities, constraints, nextId)

EmptySketch == Sk(<<>>, <<>>, <<>>, 1)

\* ------------------------------------------------------------------- nodes
NodeIds(S) == {S.nodes[i].id : i \in 1..Len(S.nodes)}

HasNode(S, id) == id \in NodeIds(S)

NodeIdx(S, id) == CHOOSE i \in 1..Len(S.nodes) : S.nodes[i].id = id

GetNode(S, id) == S.nodes[NodeIdx(S, id)]

GetPoint(S, id) == Pt(GetNode(S, id).x, GetNode(S, id).y)

\* A snap test on the sum of the two axis distances.
SnapHits_Sum(S, px, py) ==
  {i \in 1..Len(S.nodes) :
     Abs(S.nodes[i].x - px) + Abs(S.nodes[i].y - py) < SNAP_DISTANCE}

\* Sketcher.acquireNode: the first node in insertion order inside the snap
\* box, else a new node at exactly (x, y).  Returns the sketch and the id.
SnapHits(S, px, py) ==
  {i \in 1..Len(S.nodes) :
     /\ Abs(S.nodes[i].x - px) < SNAP_DISTANCE
     /\ Abs(S.nodes[i].y - py) < SNAP_DISTANCE}

\* An acquireNode that never reuses a node.
AcquireNode_AlwaysNew(S, px, py) ==
  [S |-> [S EXCEPT !.nodes = Append(@, [id |-> S.nextId, x |-> px, y |-> py]),
                   !.nextId = @ + 1],
   id |-> S.nextId]

AcquireNode(S, px, py) ==
  IF SnapHits(S, px, py) # {}
  THEN [S |-> S, id |-> S.nodes[MinOf(SnapHits(S, px, py))].id]
  ELSE [S |-> [S EXCEPT !.nodes = Append(@, [id |-> S.nextId, x |-> px, y |-> py]),
                        !.nextId = @ + 1],
        id |-> S.nextId]

\* ---------------------------------------------------------------- entities
EntIds(S) == {S.entities[i].id : i \in 1..Len(S.entities)}

HasEntity(S, id) == id \in EntIds(S)

EntIdx(S, id) == CHOOSE i \in 1..Len(S.entities) : S.entities[i].id = id

GetEntity(S, id) == S.entities[EntIdx(S, id)]

PutEntity(S, e) ==
  [S EXCEPT !.entities = Append(@, e), !.nextId = @ + 1]

AddLine(S, start, end) ==
  LET a == AcquireNode(S, start.x, start.y)
      b == AcquireNode(a.S, end.x, end.y)
  IN PutEntity(b.S, [type |-> "line", id |-> b.S.nextId,
                     startNodeId |-> a.id, endNodeId |-> b.id,
                     construction |-> FALSE])

RECURSIVE AcquireAll(_, _)
AcquireAll(S, points) ==
  IF points = <<>> THEN [S |-> S, ids |-> <<>>]
  ELSE LET a == AcquireNode(S, Head(points).x, Head(points).y)
           r == AcquireAll(a.S, Tail(points))
       IN [S |-> r.S, ids |-> <<a.id>> \o r.ids]

AddPolyline(S, points, closed) ==
  LET a == AcquireAll(S, points)
  IN PutEntity(a.S, [type |-> "polyline", id |-> a.S.nextId,
                     nodeIds |-> a.ids, closed |-> closed,
                     construction |-> FALSE])

AddRectangle(S, corner, width, height) ==
  LET a == AcquireNode(S, corner.x, corner.y)
  IN PutEntity(a.S, [type |-> "rectangle", id |-> a.S.nextId,
                     cornerNodeId |-> a.id, width |-> width, height |-> height,
                     construction |-> FALSE])

AddCircle(S, center, radius) ==
  LET a == AcquireNode(S, center.x, center.y)
  IN PutEntity(a.S, [type |-> "circle", id |-> a.S.nextId,
                     centerNodeId |-> a.id, radius |-> radius,
                     construction |-> FALSE])

AddPoint(S, pos) ==
  LET a == AcquireNode(S, pos.x, pos.y)
  IN PutEntity(a.S, [type |-> "point", id |-> a.S.nextId,
                     nodeId |-> a.id, construction |-> FALSE])

\* The node ids cleanupUnusedNodes counts as used by one entity.
UsedBy(e) ==
  IF e.type = "line" THEN {e.startNodeId, e.endNodeId}
  ELSE IF e.type = "polyline" THEN Range(e.nodeIds)
  ELSE IF e.type = "rectangle" THEN {e.cornerNodeId}
  ELSE IF e.type = "circle" THEN {e.centerNodeId}
  ELSE IF e.type = "point" THEN {e.nodeId}
  ELSE {}

UsedNodeIds(S) == UNION {UsedBy(S.entities[i]) : i \in 1..Len(S.entities)}

\* A cleanup that deletes nothing.
CleanupUnusedNodes_None(S) == S

CleanupUnusedNodes(S) ==
  [S EXCEPT !.nodes =
     SeqFilter(@, {n \in Range(@) : n.id \in UsedNodeIds(S)})]

\* A removal that leaves the constraints as they are.
RemoveEntity_KeepConstraints(S, entityId) ==
  IF ~HasEntity(S, entityId) THEN S
  ELSE CleanupUnusedNodes(
         [S EXCEPT
            !.entities = SeqFilter(@, {e \in Range(@) : e.id # entityId})])

RemoveEntity(S, entityId) ==
  IF ~HasEntity(S, entityId) THEN S
  ELSE CleanupUnusedNodes(
         [S EXCEPT
            !.entities = SeqFilter(@, {e \in Range(@) : e.id # entityId}),
            !.constraints =
              SeqFilter(@, {c \in Range(@) : entityId \notin Range(c.entityIds)})])

MergeRec(e, u) ==
  [f \in (DOMAIN e) \cup (DOMAIN u) |-> IF f \in DOMAIN u THEN u[f] ELSE e[f]]

SetNodeXY(S, id, p) ==
  IF HasNode(S, id)
  THEN [S EXCEPT !.nodes[NodeIdx(S, id)] = [@ EXCEPT !.x = p.x, !.y = p.y]]
  ELSE S

\* Sketcher.updateEntity: the stored entity becomes {...entity, ...updates};
\* for a line, the legacy fields start / end move the line's nodes.
UpdateEntity(S, entityId, updates) ==
  IF ~HasEntity(S, entityId) THEN S
  ELSE LET entity == GetEntity(S, entityId)
           S1 == [S EXCEPT !.entities[EntIdx(S, entityId)] = MergeRec(entity, updates)]
           S2 == IF entity.type = "line" /\ "start" \in DOMAIN updates
                 THEN SetNodeXY(S1, entity.startNodeId, updates.start) ELSE S1
       IN IF entity.type = "line" /\ "end" \in DOMAIN updates
          THEN SetNodeXY(S2, entity.endNodeId, updates.end) ELSE S2

\* ------------------------------------------------------- geometry kernel
VecSub(a, b) == Pt(a.x - b.x, a.y - b.y)

VecDot(a, b) == a.x * b.x + a.y * b.y

\* vecDist squared (in squared units).
DistSq(a, b) == VecDot(VecSub(a, b), VecSub(a, b))

\* n / d rounded to the nearest integer (d > 0).
RoundDiv(n, d) == (2 * n + d) \div (2 * d)

RECURSIVE ISqrtIn(_, _, _)
ISqrtIn(n, lo, hi) ==
  IF lo >= hi THEN lo
  ELSE LET mid == (lo + hi + 1) \div 2
       IN IF mid * mid <= n THEN ISqrtIn(n, mid, hi) ELSE ISqrtIn(n, lo, mid - 1)

\* Math.sqrt, rounded down to the unit.
ISqrt(n) == ISqrtIn(n, 0, IF n < 46340 THEN n ELSE 46340)

Frac(n, d) == [n |-> n, d |-> d]

\* Comparisons of a fraction with EPSILON = 1 / EPS_DEN.
GtEps(f) == f.n * EPS_DEN > f.d
LtOneMinusEps(f) == (f.d - f.n) * EPS_DEN > f.d
GeMinusEps(f) == f.n * EPS_DEN >= -f.d
LeOnePlusEps(f) == (f.n - f.d) * EPS_DEN <= f.d
FracLt(a, b) == a.n * b.d < b.n * a.d
FracLe(a, b) == a.n * b.d <= b.n * a.d
\* a > b + EPSILON; the integer (a - b) * d exceeds d / EPS_DEN exactly when it
\* exceeds the quotient rounded down.
GtPlusEps(a, b) == a.n * b.d - b.n * a.d > (a.d * b.d) \div EPS_DEN

\* The point p1 + t * (p2 - p1), rounded to the unit.
PointAt(p1, p2, t) ==
  Pt(p1.x + RoundDiv(t.n * (p2.x - p1.x), t.d),
     p1.y + RoundDiv(t.n * (p2.y - p1.y), t.d))

NoInt == [none |-> TRUE]

\* SketchMath.intersectLineLine: null when |denom| < EPSILON, else the
\* parameters t (on p1-p2) and u (on p3-p4) and the point.  The fractions
\* are normalised to a positive denominator.
IntersectLineLine(p1, p2, p3, p4) ==
  LET denom == (p4.y - p3.y) * (p2.x - p1.x) - (p4.x - p3.x) * (p2.y - p1.y)
      na == (p4.x - p3.x) * (p1.y - p3.y) - (p4.y - p3.y) * (p1.x - p3.x)
      nb == (p2.x - p1.x) * (p1.y - p3.y) - (p2.y - p1.y) * (p1.x - p3.x)
      sg == IF denom < 0 THEN -1 ELSE 1
      t == Frac(sg * na, Abs(denom))
  IN IF Abs(denom) * EPS_DEN < One * One THEN NoInt
     ELSE [none |-> FALSE, t |-> t, u |-> Frac(sg * nb, Abs(denom)),
           p |-> PointAt(p1, p2, t)]

\* SketchMath.intersectLineCircle: the two roots (-b -+ sqrt(disc)) / 2a as
\* fractions, none when the discriminant is negative.  With a = 0 (p1 = p2)
\* the code divides by zero and every later comparison of the NaN root is
\* false: no root is usable.
IntersectLineCircle(p1, p2, center, radius) ==
  LET d == VecSub(p2, p1)
      f == VecSub(p1, center)
      a == VecDot(d, d)
      b == 2 * VecDot(f, d)
      c == VecDot(f, f) - radius * radius
      disc == b * b - 4 * a * c
  IN IF disc < 0 \/ a = 0 THEN <<>>
     ELSE <<Frac(-b - ISqrt(disc), 2 * a), Frac(-b + ISqrt(disc), 2 * a)>>

\* SketchMath.projectPointOnLine(p, a, b).dist, squared, as a fraction:
\* the distance from p to the closest point of the clamped segment.
ProjectDistSq(p, a, b) ==
  LET ab == VecSub(b, a)
      ap == VecSub(p, a)
      lenSq == VecDot(ab, ab)
      tn == IF lenSq * EPS_DEN > One * One THEN VecDot(ap, ab) ELSE 0
      cross == ab.x * ap.y - ab.y * ap.x
  IN IF tn <= 0 THEN Frac(VecDot(ap, ap), 1)
     ELSE IF tn >= lenSq THEN Frac(DistSq(p, b), 1)
     ELSE Frac(cross * cross, lenSq)

Seg(p1, p2) == [p1 |-> p1, p2 |-> p2]

\* ------------------------------------------------- segments and circles
RECURSIVE PolyPairs(_)
PolyPairs(ids) ==
  IF Len(ids) < 2 THEN <<>>
  ELSE <<<<ids[1], ids[2]>>>> \o PolyPairs(Tail(ids))

\* The consecutive node-id pairs of a polyline, plus the closing pair.
PolyEdges(e) ==
  PolyPairs(e.nodeIds)
    \o (IF e.closed /\ Len(e.nodeIds) >= 1
        THEN <<<<e.nodeIds[Len(e.nodeIds)], e.nodeIds[1]>>>> ELSE <<>>)

RECURSIVE PairSegs(_, _)
PairSegs(S, pairs) ==
  IF pairs = <<>> THEN <<>>
  ELSE (IF HasNode(S, Head(pairs)[1]) /\ HasNode(S, Head(pairs)[2])
        THEN <<Seg(GetPoint(S, Head(pairs)[1]), GetPoint(S, Head(pairs)[2]))>>
        ELSE <<>>) \o PairSegs(S, Tail(pairs))

EntitySegments(S, e) ==
  IF e.type = "line" THEN PairSegs(S, <<<<e.startNodeId, e.endNodeId>>>>)
  ELSE IF e.type = "polyline" THEN PairSegs(S, PolyEdges(e))
  ELSE IF e.type = "rectangle" /\ HasNode(S, e.cornerNodeId)
  THEN LET q1 == GetPoint(S, e.cornerNodeId)
           q2 == Pt(q1.x + e.width, q1.y)
           q3 == Pt(q1.x + e.width, q1.y + e.height)
           q4 == Pt(q1.x, q1.y + e.height)
       IN <<Seg(q1, q2), Seg(q2, q3), Seg(q3, q4), Seg(q4, q1)>>
  ELSE <<>>

RECURSIVE SegmentsOf(_, _)
SegmentsOf(S, ents) ==
  IF ents = <<>> THEN <<>>
  ELSE EntitySegments(S, Head(ents)) \o SegmentsOf(S, Tail(ents))

GetAllSegments(S) == SegmentsOf(S, S.entities)

RECURSIVE CirclesOf(_, _)
CirclesOf(S, ents) ==
  IF ents = <<>> THEN <<>>
  ELSE (IF Head(ents).type = "circle" /\ HasNode(S, Head(ents).centerNodeId)
        THEN <<[center |-> GetPoint(S, Head(ents).centerNodeId),
                radius |-> Head(ents).radius]>>
        ELSE <<>>) \o CirclesOf(S, Tail(ents))

GetAllCircles(S) == CirclesOf(S, S.entities)

\* ------------------------------------------------------------------- trim
RECURSIVE SegCuts(_, _, _)
SegCuts(p1, p2, segs) ==
  IF segs = <<>> THEN <<>>
  ELSE LET res == IntersectLineLine(p1, p2, Head(segs).p1, Head(segs).p2)
       IN (IF /\ ~res.none
              /\ GtEps(res.t) /\ LtOneMinusEps(res.t)
              /\ GeMinusEps(res.u) /\ LeOnePlusEps(res.u)
           THEN <<res.t>> ELSE <<>>) \o SegCuts(p1, p2, Tail(segs))

RECURSIVE CircleCuts(_, _, _)
CircleCuts(p1, p2, circles) ==
  IF circles = <<>> THEN <<>>
  ELSE LET ts == IntersectLineCircle(p1, p2, Head(circles).center, Head(circles).radius)
       IN SeqFilter(ts, {t \in Range(ts) : GtEps(t) /\ LtOneMinusEps(t)})
            \o CircleCuts(p1, p2, Tail(circles))

RECURSIVE InsertFrac(_, _)
InsertFrac(t, sorted) ==
  IF sorted = <<>> THEN <<t>>
  ELSE IF FracLt(t, Head(sorted)) THEN <<t>> \o sorted
       ELSE <<Head(sorted)>> \o InsertFrac(t, Tail(sorted))

RECURSIVE SortFracs(_)
SortFracs(ts) ==
  IF ts = <<>> THEN <<>> ELSE InsertFrac(Head(ts), SortFracs(Tail(ts)))

\* cutsT.filter((t, i) => i === 0 || t > cutsT[i - 1] + EPSILON)
UniqueT(cutsT) ==
  LET keep == {i \in 1..Len(cutsT) : i = 1 \/ GtPlusEps(cutsT[i], cutsT[i - 1])}
  IN [k \in 1..Cardinality(keep) |->
        cutsT[CHOOSE i \in keep : Cardinality({j \in keep : j <= i}) = k]]

\* The sorted, deduplicated cut parameters of the target, 0 and 1 included.
CutParams(target, otherSegments, otherCircles) ==
  UniqueT(SortFracs(<<Frac(0, 1), Frac(1, 1)>>
                      \o SegCuts(target.p1, target.p2, otherSegments)
                      \o CircleCuts(target.p1, target.p2, otherCircles)))

Fragments(target, uniqueT) ==
  [i \in 1..(Len(uniqueT) - 1) |->
     Seg(PointAt(target.p1, target.p2, uniqueT[i]),
         PointAt(target.p1, target.p2, uniqueT[i + 1]))]

\* The first fragment at minimum distance from the click (0: none).
ClosestIdx(clickPoint, frags) ==
  IF frags = <<>> THEN 0
  ELSE CHOOSE i \in 1..Len(frags) :
         /\ \A j \in 1..Len(frags) :
              FracLe(ProjectDistSq(clickPoint, frags[i].p1, frags[i].p2),
                     ProjectDistSq(clickPoint, frags[j].p1, frags[j].p2))
         /\ \A j \in 1..(i - 1) :
              FracLt(ProjectDistSq(clickPoint, frags[i].p1, frags[i].p2),
                     ProjectDistSq(clickPoint, frags[j].p1, frags[j].p2))

DropAt(s, i) == [k \in 1..(Len(s) - 1) |-> IF k < i THEN s[k] ELSE s[k + 1]]

\* SketchMath.calculateTrim: the fragments left when the one closest to the
\* click is spliced out; null when there is no fragment and more than two
\* cut parameters.
CalculateTrim(target, clickPoint, otherSegments, otherCircles) ==
  LET uniqueT == CutParams(target, otherSegments, otherCircles)
      frags == Fragments(target, uniqueT)
      closestIdx == ClosestIdx(clickPoint, frags)
  IN IF closestIdx # 0 THEN [null |-> FALSE, frags |-> DropAt(frags, closestIdx)]
     ELSE IF Len(uniqueT) = 2 THEN [null |-> FALSE, frags |-> <<>>]
     ELSE [null |-> TRUE, frags |-> <<>>]

\* |a - b| < 0.001 on one axis.
Near(a, b) == Abs(a - b) * MIN_LEN_DEN < One

\* SketchMath.distance(p1, p2) > 0.001: the squared distance exceeds
\* (0.001)^2, which for an integer is to exceed it rounded down.
LongEnough(sg) ==
  DistSq(sg.p1, sg.p2) > (One * One) \div (MIN_LEN_DEN * MIN_LEN_DEN)

\* The segments other than the target's own (same start and end).
OtherSegs(S, pStart, pEnd) ==
  LET all == GetAllSegments(S)
  IN SeqFilter(all, {sg \in Range(all) :
       ~(/\ Near(sg.p1.x, pStart.x) /\ Near(sg.p1.y, pStart.y)
         /\ Near(sg.p2.x, pEnd.x) /\ Near(sg.p2.y, pEnd.y))})

RECURSIVE AddLines(_, _)
AddLines(S, segs) ==
  IF segs = <<>> THEN S
  ELSE AddLines(AddLine(S, Head(segs).p1, Head(segs).p2), Tail(segs))

LongSegs(segs) == SeqFilter(segs, {sg \in Range(segs) : LongEnough(sg)})

\* A trim that adds the kept fragments and leaves the target in place.
TrimLine_KeepTarget(S, target, clickPoint) ==
  LET pStart == GetPoint(S, target.startNodeId)
      pEnd == GetPoint(S, target.endNodeId)
  IN IF ~HasNode(S, target.startNodeId) \/ ~HasNode(S, target.endNodeId) THEN S
     ELSE AddLines(S, LongSegs(CalculateTrim(Seg(pStart, pEnd), clickPoint,
                                             OtherSegs(S, pStart, pEnd),
                                             GetAllCircles(S)).frags))

TrimLine(S, target, clickPoint) ==
  IF ~HasNode(S, target.startNodeId) \/ ~HasNode(S, target.endNodeId) THEN S
  ELSE LET pStart == GetPoint(S, target.startNodeId)
           pEnd == GetPoint(S, target.endNodeId)
           newSegments == CalculateTrim(Seg(pStart, pEnd), clickPoint,
                                        OtherSegs(S, pStart, pEnd), GetAllCircles(S))
       IN IF newSegments.null THEN S
          ELSE AddLines(RemoveEntity(S, target.id), LongSegs(newSegments.frags))

\* The first polyline segment at minimum distance from the click.
ClickedSegIdx(clickPoint, polySegments) == ClosestIdx(clickPoint, polySegments)

TrimPolyline(S, target, clickPoint) ==
  LET polySegments ==
        PairSegs(S, PolyEdges([target EXCEPT
                      !.nodeIds = SeqFilter(@, {id \in Range(@) : HasNode(S, id)})]))
      npts == Len(SeqFilter(target.nodeIds,
                            {id \in Range(target.nodeIds) : HasNode(S, id)}))
      clickedSegIdx == ClickedSegIdx(clickPoint, polySegments)
  IN IF npts < 2 \/ clickedSegIdx = 0 THEN S
     ELSE LET targetSeg == polySegments[clickedSegIdx]
              S1 == AddLines(RemoveEntity(S, target.id),
                             DropAt(polySegments, clickedSegIdx))
              trimmedParts == CalculateTrim(targetSeg, clickPoint,
                                            GetAllSegments(S1), GetAllCircles(S1))
          IN IF trimmedParts.null THEN S1
             ELSE AddLines(S1, LongSegs(trimmedParts.frags))

\* A trim that erases a target that is neither a line nor a polyline.
TrimEntity_EraseOthers(S, targetId, clickPoint) ==
  IF ~HasEntity(S, targetId) THEN S
  ELSE IF GetEntity(S, targetId).type = "line"
       THEN TrimLine(S, GetEntity(S, targetId), clickPoint)
  ELSE IF GetEntity(S, targetId).type = "polyline"
       THEN TrimPolyline(S, GetEntity(S, targetId), clickPoint)
  ELSE RemoveEntity(S, targetId)

TrimEntity(S, targetId, clickPoint) ==
  IF ~HasEntity(S, targetId) THEN S
  ELSE IF GetEntity(S, targetId).type = "line"
       THEN TrimLine(S, GetEntity(S, targetId), clickPoint)
  ELSE IF GetEntity(S, targetId).type = "polyline"
       THEN TrimPolyline(S, GetEntity(S, targetId), clickPoint)
  ELSE S

\* ----------------------------------------------------------------- extend
\* The code casts the ray endPt -> farPt = endPt + dir * RAY_LENGTH and keeps
\* an intersection whose ray parameter exceeds EPSILON.  The parameter is
\* dist / RAY_LENGTH, so the test reads dist > RAY_LENGTH * EPSILON (one
\* unit of length), on the side the ray points to.  The model casts the
\* same ray as endPt -> endPt + (endPt - startPt): the same line, the same
\* intersection points, the parameter positive for the same points.
AheadMin == (RAY_LENGTH * One) \div EPS_DEN

\* An intersection farther than the least distance, on either side.
Ahead_EitherSide(endPt, t, p) == DistSq(endPt, p) > AheadMin * AheadMin

Ahead(endPt, t, p) == t.n > 0 /\ DistSq(endPt, p) > AheadMin * AheadMin

NoBest == [found |-> FALSE, d |-> 0, p |-> Pt(0, 0)]

Better(best, endPt, p) ==
  IF ~best.found \/ DistSq(endPt, p) < best.d
  THEN [found |-> TRUE, d |-> DistSq(endPt, p), p |-> p]
  ELSE best

RECURSIVE ExtendOverSegs(_, _, _, _)
ExtendOverSegs(best, endPt, farPt, segs) ==
  IF segs = <<>> THEN best
  ELSE LET res == IntersectLineLine(endPt, farPt, Head(segs).p1, Head(segs).p2)
       IN ExtendOverSegs(
            IF /\ ~res.none
               /\ Ahead(endPt, res.t, res.p)
               /\ GeMinusEps(res.u) /\ LeOnePlusEps(res.u)
            THEN Better(best, endPt, res.p) ELSE best,
            endPt, farPt, Tail(segs))

RECURSIVE ExtendOverRoots(_, _, _, _)
ExtendOverRoots(best, endPt, farPt, ts) ==
  IF ts = <<>> THEN best
  ELSE ExtendOverRoots(
         IF Ahead(endPt, Head(ts), PointAt(endPt, farPt, Head(ts)))
         THEN Better(best, endPt, PointAt(endPt, farPt, Head(ts))) ELSE best,
         endPt, farPt, Tail(ts))

RECURSIVE ExtendOverCircles(_, _, _, _)
ExtendOverCircles(best, endPt, farPt, circles) ==
  IF circles = <<>> THEN best
  ELSE ExtendOverCircles(
         ExtendOverRoots(best, endPt, farPt,
           IntersectLineCircle(endPt, farPt, Head(circles).center, Head(circles).radius)),
         endPt, farPt, Tail(circles))

\* calculateExtend's choice of the end to extend: p2 when the click is
\* strictly closer to p2.
ExtendP2(target, clickPoint) ==
  DistSq(clickPoint, target.p2) < DistSq(clickPoint, target.p1)

\* SketchMath.calculateExtend: the target with the chosen end moved to the
\* nearest intersection ahead of it; null when there is none.
CalculateExtend(target, clickPoint, otherSegments, otherCircles) ==
  LET extendP2 == ExtendP2(target, clickPoint)
      startPt == IF extendP2 THEN target.p1 ELSE target.p2
      endPt == IF extendP2 THEN target.p2 ELSE target.p1
      farPt == Pt(endPt.x + (endPt.x - startPt.x), endPt.y + (endPt.y - startPt.y))
      best == ExtendOverCircles(
                ExtendOverSegs(NoBest, endPt, farPt, otherSegments),
                endPt, farPt, otherCircles)
  IN IF ~best.found THEN [null |-> TRUE, p1 |-> target.p1, p2 |-> target.p2]
     ELSE IF extendP2 THEN [null |-> FALSE, p1 |-> target.p1, p2 |-> best.p]
     ELSE [null |-> FALSE, p1 |-> best.p, p2 |-> target.p2]

\* Sketcher.extendEntity's own choice of the end whose node it writes.
ExtendStart(clickPoint, pStart, pEnd) ==
  DistSq(clickPoint, pStart) < DistSq(clickPoint, pEnd)

\* The target is a line whose two end nodes resolve.
ResolvedLine(S, targetId) ==
  /\ HasEntity(S, targetId)
  /\ GetEntity(S, targetId).type = "line"
  /\ HasNode(S, GetEntity(S, targetId).startNodeId)
  /\ HasNode(S, GetEntity(S, targetId).endNodeId)

\* The result extendEntity gets from calculateExtend.
ExtendResult(S, targetId, clickPoint) ==
  LET target == GetEntity(S, targetId)
      pStart == GetPoint(S, target.startNodeId)
      pEnd == GetPoint(S, target.endNodeId)
  IN CalculateExtend(Seg(pStart, pEnd), clickPoint,
                     OtherSegs(S, pStart, pEnd), GetAllCircles(S))

ExtendEntity(S, targetId, clickPoint) ==
  IF ~ResolvedLine(S, targetId) THEN S
  ELSE LET target == GetEntity(S, targetId)
           pStart == GetPoint(S, target.startNodeId)
           pEnd == GetPoint(S, target.endNodeId)
           result == ExtendResult(S, targetId, clickPoint)
       IN IF result.null THEN S
          ELSE IF ExtendStart(clickPoint, pStart, pEnd)
               THEN SetNodeXY(S, target.startNodeId, result.p1)
               ELSE SetNodeXY(S, target.endNodeId, result.p2)

\* ----------------------------------------------------------------- offset
\* normal * distance for SketchMath.getNormal2D(p1, p2), rounded to the unit;
\* the length is taken to two more digits than the unit.  len < EPSILON is
\* lenSq < EPSILON^2, which for an integer is lenSq <= (One^2 - 1) / EPS_DEN^2.
NormalTimes(p1, p2, distance) ==
  LET dx == p2.x - p1.x
      dy == p2.y - p1.y
      lenSq == dx * dx + dy * dy
      len == ISqrt(lenSq * 10000)
  IN IF lenSq <= (One * One - 1) \div (EPS_DEN * EPS_DEN) THEN Pt(0, distance)
     ELSE Pt(RoundDiv(-dy * distance * 100, len), RoundDiv(dx * distance * 100, len))

\* The offset vector on the side of sidePoint.
FinalOffset(pStart, pEnd, distance, sidePoint) ==
  LET nd == NormalTimes(pStart, pEnd, distance)
      pTestPos == Pt(pStart.x + nd.x, pStart.y + nd.y)
      pTestNeg == Pt(pStart.x - nd.x, pStart.y - nd.y)
  IN IF DistSq(pTestPos, sidePoint) < DistSq(pTestNeg, sidePoint)
     THEN nd ELSE Pt(-nd.x, -nd.y)

\* An offset that moves the target's own end nodes.
OffsetEntity_InPlace(S, targetId, distance, sidePoint) ==
  IF ~ResolvedLine(S, targetId) THEN S
  ELSE LET target == GetEntity(S, targetId)
           pStart == GetPoint(S, target.startNodeId)
           pEnd == GetPoint(S, target.endNodeId)
           off == FinalOffset(pStart, pEnd, distance, sidePoint)
       IN SetNodeXY(SetNodeXY(S, target.startNodeId,
                              Pt(pStart.x + off.x, pStart.y + off.y)),
                    target.endNodeId, Pt(pEnd.x + off.x, pEnd.y + off.y))

OffsetEntity(S, targetId, distance, sidePoint) ==
  IF ~HasEntity(S, targetId) THEN S
  ELSE LET target == GetEntity(S, targetId)
       IN IF target.type # "line" THEN S
          ELSE IF ~HasNode(S, target.startNodeId) \/ ~HasNode(S, target.endNodeId) THEN S
          ELSE LET pStart == GetPoint(S, target.startNodeId)
                   pEnd == GetPoint(S, target.endNodeId)
                   off == FinalOffset(pStart, pEnd, distance, sidePoint)
               IN AddLine(S, Pt(pStart.x + off.x, pStart.y + off.y),
                             Pt(pEnd.x + off.x, pEnd.y + off.y))

\* ------------------------------------------------------ constraint solver
maxIterations == 10

\* a < EPSILON for a length a >= 0 in units: a * EPS_DEN < One.
BelowEps(a) == a <= (One - 1) \div EPS_DEN

\* A solver step that moves the start node alone to the average.
SolveAxis_StartOnly(S, constraint, axis) ==
  LET entityId == constraint.entityIds[1]
  IN IF ~HasEntity(S, entityId) THEN [S |-> S, err |-> 0]
     ELSE LET entity == GetEntity(S, entityId)
          IN IF entity.type # "line" THEN [S |-> S, err |-> 0]
             ELSE IF ~HasNode(S, entity.startNodeId) \/ ~HasNode(S, entity.endNodeId)
             THEN [S |-> S, err |-> 0]
             ELSE LET i1 == NodeIdx(S, entity.startNodeId)
                      i2 == NodeIdx(S, entity.endNodeId)
                      diff == S.nodes[i1][axis] - S.nodes[i2][axis]
                      avg == RoundDiv(S.nodes[i1][axis] + S.nodes[i2][axis], 2)
                  IN IF BelowEps(Abs(diff)) THEN [S |-> S, err |-> 0]
                     ELSE [S |-> [S EXCEPT !.nodes[i1][axis] = avg],
                           err |-> Abs(diff)]

\* ConstraintSolver.solveVertical / solveHorizontal on axis "x" / "y":
\* the sketch with both end nodes set to their average, and |diff|.
SolveAxis(S, constraint, axis) ==
  LET entityId == constraint.entityIds[1]
  IN IF ~HasEntity(S, entityId) THEN [S |-> S, err |-> 0]
     ELSE LET entity == GetEntity(S, entityId)
          IN IF entity.type # "line" THEN [S |-> S, err |-> 0]
             ELSE IF ~HasNode(S, entity.startNodeId) \/ ~HasNode(S, entity.endNodeId)
             THEN [S |-> S, err |-> 0]
             ELSE LET i1 == NodeIdx(S, entity.startNodeId)
                      i2 == NodeIdx(S, entity.endNodeId)
                      diff == S.nodes[i1][axis] - S.nodes[i2][axis]
                      avg == RoundDiv(S.nodes[i1][axis] + S.nodes[i2][axis], 2)
                  IN IF BelowEps(Abs(diff)) THEN [S |-> S, err |-> 0]
                     ELSE [S |-> [S EXCEPT !.nodes[i1][axis] = avg,
                                           !.nodes[i2][axis] = avg],
                           err |-> Abs(diff)]

SolveVertical(S, constraint) == SolveAxis(S, constraint, "x")

\* A horizontal step that averages x.
SolveHorizontal_OnX(S, constraint) == SolveAxis(S, constraint, "x")

SolveHorizontal(S, constraint) == SolveAxis(S, constraint, "y")

\* One pass of solve(): every enabled constraint once, in map order.
RECURSIVE SolvePass(_, _, _)
SolvePass(S, cs, totalError) ==
  IF cs = <<>> THEN [S |-> S, err |-> totalError]
  ELSE LET c == Head(cs)
           r == IF ~c.enabled THEN [S |-> S, err |-> 0]
                ELSE IF c.type = "vertical" THEN SolveVertical(S, c)
                ELSE IF c.type = "horizontal" THEN SolveHorizontal(S, c)
                ELSE [S |-> S, err |-> 0]
       IN SolvePass(r.S, Tail(cs), totalError + r.err)

\* ConstraintSolver.solve from pass i on: the sketch and the pass count.
RECURSIVE SolveFrom(_, _)
SolveFrom(S, i) ==
  IF i >= maxIterations THEN [S |-> S, iterations |-> i]
  ELSE LET r == SolvePass(S, S.constraints, 0)
       IN IF BelowEps(r.err) THEN [S |-> r.S, iterations |-> i + 1]
          ELSE SolveFrom(r.S, i + 1)

\* A solve of one pass, whatever its error.
Solve_OnePass(S) == [S |-> SolvePass(S, S.constraints, 0).S, iterations |-> 1]

Solve(S) == SolveFrom(S, 0)

SolveAllConstraints(S) ==
  IF Len(S.constraints) = 0 THEN S ELSE Solve(S).S

\* A duplicate test that never finds a constraint.
HasConstraint_Never(S, type, entityId) == FALSE

HasConstraint(S, type, entityId) ==
  \E i \in 1..Len(S.constraints) :
    S.constraints[i].type = type /\ entityId \in Range(S.constraints[i].entityIds)

\* addVerticalConstraint / addHorizontalConstraint: the sketch and the
\* Result returned (success, and the new constraint's id as its value).
AddConstraint(S, type, entityId) ==
  IF ~HasEntity(S, entityId) THEN [S |-> S, success |-> FALSE, value |-> 0]
  ELSE IF GetEntity(S, entityId).type # "line"
       THEN [S |-> S, success |-> FALSE, value |-> 0]
  ELSE IF HasConstraint(S, type, entityId)
       THEN [S |-> S, success |-> FALSE, value |-> 0]
  ELSE [S |-> SolveAllConstraints(
                [S EXCEPT !.constraints =
                            Append(@, [id |-> S.nextId, type |-> type,
                                       entityIds |-> <<entityId>>, enabled |-> TRUE]),
                          !.nextId = @ + 1]),
        success |-> TRUE, value |-> S.nextId]

AddVerticalConstraint(S, entityId) == AddConstraint(S, "vertical", entityId)

AddHorizontalConstraint(S, entityId) == AddConstraint(S, "horizontal", entityId)

\* ------------------------------------------------------- contour detector
STEP_LIMIT == 5000

SeqHas(s, v) == \E i \in 1..Len(s) : s[i] = v

\* adj: the keys in insertion order and each key's neighbour list.
EmptyAdj == [keys |-> <<>>, nb |-> <<>>]

AdjIdx(adj, id) == CHOOSE i \in 1..Len(adj.keys) : adj.keys[i] = id

AdjKey(adj, id) ==
  IF SeqHas(adj.keys, id) THEN adj
  ELSE [keys |-> Append(adj.keys, id), nb |-> Append(adj.nb, <<>>)]

AdjPush(adj, id1, id2) ==
  IF SeqHas(adj.nb[AdjIdx(adj, id1)], id2) THEN adj
  ELSE [adj EXCEPT !.nb[AdjIdx(adj, id1)] = Append(@, id2)]

AddEdge(adj, id1, id2) ==
  AdjPush(AdjPush(AdjKey(AdjKey(adj, id1), id2), id1, id2), id2, id1)

Neighbors(adj, id) ==
  IF SeqHas(adj.keys, id) THEN adj.nb[AdjIdx(adj, id)] ELSE <<>>

RECURSIVE AddEdges(_, _)
AddEdges(adj, pairs) ==
  IF pairs = <<>> THEN adj
  ELSE LET next == AddEdge(adj, Head(pairs)[1], Head(pairs)[2])
       IN IF next = adj THEN AddEdges(adj, Tail(pairs))
          ELSE AddEdges(next, Tail(pairs))

\* The node pairs addEdge is called with, in entity order: the ends of
\* every line and the consecutive nodes of every polyline.
RECURSIVE EdgePairs(_)
EdgePairs(ents) ==
  IF ents = <<>> THEN <<>>
  ELSE (IF Head(ents).type = "line"
        THEN <<<<Head(ents).startNodeId, Head(ents).endNodeId>>>>
        ELSE IF Head(ents).type = "polyline" THEN PolyEdges(Head(ents))
        ELSE <<>>) \o EdgePairs(Tail(ents))

\* The graph of every line and every polyline edge.
BuildAdj(adj, ents) == AddEdges(adj, EdgePairs(ents))

RECURSIVE RectContours(_, _)
RectContours(S, ents) ==
  IF ents = <<>> THEN <<>>
  ELSE (IF Head(ents).type = "rectangle" /\ HasNode(S, Head(ents).cornerNodeId)
        THEN LET q == GetPoint(S, Head(ents).cornerNodeId)
                 e == Head(ents)
             IN <<[ids |-> <<>>,
                   pts |-> <<q, Pt(q.x + e.width, q.y),
                             Pt(q.x + e.width, q.y + e.height),
                             Pt(q.x, q.y + e.height)>>]>>
        ELSE <<>>) \o RectContours(S, Tail(ents))

\* path.map(id => nodes.get(id)!): the coordinates of a path; a missing node
\* makes the code throw.
PathThrows(S, path) == \E i \in 1..Len(path) : ~HasNode(S, path[i])

PathPoints(S, path) ==
  [i \in 1..Len(path) |->
     IF HasNode(S, path[i]) THEN GetPoint(S, path[i]) ELSE Pt(0, 0)]

\* The for-loop over the neighbours of the popped path's last node: acc
\* carries the stack, the signatures seen, the cycles and whether it threw.
RECURSIVE VisitNeighbors(_, _, _, _, _)
VisitNeighbors(S, startNodeId, path, nbs, acc) ==
  IF nbs = <<>> THEN acc
  ELSE LET neighbor == Head(nbs)
           rest == Tail(nbs)
       IN IF Len(path) >= 2 /\ path[Len(path) - 1] = neighbor
          THEN VisitNeighbors(S, startNodeId, path, rest, acc)
          ELSE IF neighbor = startNodeId /\ Len(path) >= 3
          THEN VisitNeighbors(S, startNodeId, path, rest,
                 IF Range(path) \in acc.sigs THEN acc
                 ELSE [acc EXCEPT
                         !.sigs = @ \cup {Range(path)},
                         !.threw = @ \/ PathThrows(S, path),
                         !.cycles = Append(@, [ids |-> path,
                                               pts |-> PathPoints(S, path)])])
          ELSE IF neighbor \notin Range(path)
          THEN VisitNeighbors(S, startNodeId, path, rest,
                 [acc EXCEPT !.stack = Append(@, Append(path, neighbor))])
          ELSE VisitNeighbors(S, startNodeId, path, rest, acc)

\* while (stack.length > 0 && limit++ < 5000); when the loop ends the start
\* node and the number of paths popped are noted in acc.searched.
RECURSIVE SearchFrom(_, _, _, _, _)
SearchFrom(S, adj, startNodeId, limit, acc) ==
  IF acc.stack = <<>> \/ limit >= STEP_LIMIT \/ acc.threw
  THEN [acc EXCEPT !.searched = Append(@, [start |-> startNodeId, steps |-> limit])]
  ELSE LET path == acc.stack[Len(acc.stack)]
           popped == [acc EXCEPT !.stack = SubSeq(@, 1, Len(@) - 1)]
       IN SearchFrom(S, adj, startNodeId, limit + 1,
            VisitNeighbors(S, startNodeId, path,
                           Neighbors(adj, path[Len(path)]), popped))

\* A search that forgets the signatures seen from the earlier start nodes.
RECURSIVE SearchAll_FreshSigs(_, _, _, _)
SearchAll_FreshSigs(S, adj, keys, acc) ==
  IF keys = <<>> \/ acc.threw THEN acc
  ELSE IF Len(Neighbors(adj, Head(keys))) < 2
  THEN SearchAll_FreshSigs(S, adj, Tail(keys), acc)
  ELSE SearchAll_FreshSigs(S, adj, Tail(keys),
         SearchFrom(S, adj, Head(keys), 0,
                    [acc EXCEPT !.stack = <<<<Head(keys)>>>>, !.sigs = {}]))

\* A search that starts from every node of the graph.
RECURSIVE SearchAll_EveryStart(_, _, _, _)
SearchAll_EveryStart(S, adj, keys, acc) ==
  IF keys = <<>> \/ acc.threw THEN acc
  ELSE SearchAll_EveryStart(S, adj, Tail(keys),
         SearchFrom(S, adj, Head(keys), 0,
                    [acc EXCEPT !.stack = <<<<Head(keys)>>>>]))

RECURSIVE SearchAll(_, _, _, _)
SearchAll(S, adj, keys, acc) ==
  IF keys = <<>> \/ acc.threw THEN acc
  ELSE IF Len(Neighbors(adj, Head(keys))) < 2
  THEN SearchAll(S, adj, Tail(keys), acc)
  ELSE SearchAll(S, adj, Tail(keys),
         SearchFrom(S, adj, Head(keys), 0,
                    [acc EXCEPT !.stack = <<<<Head(keys)>>>>]))

\* Sketcher.getClosedContours: the contours in the order found (each with
\* the node ids of its path, none for a rectangle), whether the call threw
\* on a missing node, and the searches it made (start node, paths popped).
GetClosedContours(S) ==
  LET adj == BuildAdj(EmptyAdj, S.entities)
      r == SearchAll(S, adj, adj.keys,
                     [stack |-> <<>>, sigs |-> {}, threw |-> FALSE,
                      searched |-> <<>>,
                      cycles |-> RectContours(S, S.entities)])
  IN [threw |-> r.threw, cycles |-> r.cycles, searched |-> r.searched]

\* ------------------------------------------------------------ input sets
\* Two corners one axis apart, the opposite corner, and a point inside the
\* snap box of the origin.
Points == {Pt(0, 0), Pt(8, 0), Pt(8, 8)}

Centers == {Pt(8, 0)}

Clicks == {Pt(1, 0), Pt(7, 1)}

Paths == {<<Pt(4, -4), Pt(4, 4)>>, <<Pt(4, 0)>>}

Sizes == {4}

Distances == {4}

\* The fields updateEntity is given: the construction flag, the legacy
\* end points of a line, and a node reference (here one no node has).
Updates ==
  [construction : {TRUE}]
    \cup [start : {Pt(8, 8)}]
    \cup [startNodeId : {0}]

\* ---------------------------------------------------------------- actions
\* The last operation: its name, its target entity (0: none), its point
\* arguments, whether it changed nodes, entities or constraints, and the ids
\* of the nodes it moved.
Op(op, id, a, b) ==
  [op |-> op, id |-> id, a |-> a, b |-> b, changed |-> FALSE, moved |-> {}]

\* The ids of the nodes of S that T holds at other coordinates.
MovedNodes(S, T) ==
  {n.id : n \in {m \in Range(S.nodes) : HasNode(T, m.id) /\ GetNode(T, m.id) # m}}

Origin == Pt(0, 0)

\* The record exportToNode returned last, as the caller holds it: made says
\* there is one, from is the sketch that exported it, as it was then.  The
\* record's nodes array holds the node objects of the exporting sketch
\* themselves (Array.from(this.nodes.values())), so while live is true an
\* operation that writes the coordinates of a node writes them in the record
\* as well; a node deleted from the map stays in the record as it was.
NoRecord ==
  [made |-> FALSE, live |-> FALSE, from |-> EmptySketch,
   record |-> [nodes |-> <<>>, entities |-> <<>>, constraints |-> <<>>]]

\* The record after the sketch went from S to T.
Aliased(x, S, T) ==
  IF ~x.live THEN x
  ELSE [x EXCEPT !.record.nodes =
          [i \in 1..Len(@) |->
             IF HasNode(S, @[i].id) /\ HasNode(T, @[i].id)
             THEN GetNode(T, @[i].id) ELSE @[i]]]

\* One step of the sketch to S, recorded as l, with the record held as x.
Step(S, l, x) ==
  /\ ops > 0
  /\ ops' = ops - 1
  /\ nodes' = S.nodes
  /\ entities' = S.entities
  /\ constraints' = S.constraints
  /\ nextId' = S.nextId
  /\ last' = [l EXCEPT !.changed = (S.nodes # nodes \/ S.entities # entities
                                     \/ S.constraints # constraints),
                        !.moved = MovedNodes(Cur, S)]
  /\ exported' = x

\* ops is the number of operations the run may still apply.
Apply(S, l) == Step(S, l, Aliased(exported, Cur, S))

\* The empty sketch of a new Sketcher, with n operations to apply.
Start(n) ==
  /\ nodes = <<>>
  /\ entities = <<>>
  /\ constraints = <<>>
  /\ nextId = 1
  /\ last = Op("init", 0, Origin, Origin)
  /\ ops = n
  /\ exported = NoRecord

Init == Start(MaxOps)

\* L is a set of <<start, end>> pairs.
DoAddLine(L) ==
  \E l \in L :
    Apply(AddLine(Cur, l[1], l[2]), Op("addLine", 0, l[1], l[2]))

DoAddPolyline(PS) ==
  \E ps \in PS, closed \in BOOLEAN :
    Apply(AddPolyline(Cur, ps, closed), Op("addPolyline", 0, Origin, Origin))

DoAddRectangle(P, Z) ==
  \E c \in P, w \in Z, h \in Z :
    Apply(AddRectangle(Cur, c, w, h), Op("addRectangle", 0, c, Origin))

DoAddCircle(P, Z) ==
  \E c \in P, r \in Z :
    Apply(AddCircle(Cur, c, r), Op("addCircle", 0, c, Origin))

DoAddPoint(P) ==
  \E pos \in P :
    Apply(AddPoint(Cur, pos), Op("addPoint", 0, pos, Origin))

DoRemoveEntity ==
  \E id \in EntIds(Cur) :
    Apply(RemoveEntity(Cur, id), Op("removeEntity", id, Origin, Origin))

DoUpdateEntity(U) ==
  \E id \in EntIds(Cur), u \in U :
    Apply(UpdateEntity(Cur, id, u), Op("updateEntity", id, Origin, Origin))

DoTrimEntity(C) ==
  \E id \in EntIds(Cur), c \in C :
    Apply(TrimEntity(Cur, id, c), Op("trimEntity", id, c, Origin))

DoExtendEntity(C) ==
  \E id \in EntIds(Cur), c \in C :
    Apply(ExtendEntity(Cur, id, c), Op("extendEntity", id, c, Origin))

DoOffsetEntity(C, D) ==
  \E id \in EntIds(Cur), d \in D, c \in C :
    Apply(OffsetEntity(Cur, id, d, c), Op("offsetEntity", id, c, Pt(d, 0)))

DoAddVerticalConstraint ==
  \E id \in EntIds(Cur) :
    Apply(AddVerticalConstraint(Cur, id).S,
          Op("addVerticalConstraint", id, Origin, Origin))

DoAddHorizontalConstraint ==
  \E id \in EntIds(Cur) :
    Apply(AddHorizontalConstraint(Cur, id).S,
          Op("addHorizontalConstraint", id, Origin, Origin))

DoSolveAllConstraints ==
  Apply(SolveAllConstraints(Cur), Op("solveAllConstraints", 0, Origin, Origin))

\* Every operation of the public interface, from the empty sketch.
Next ==
  \/ DoAddLine(Points \X Points)
  \/ DoAddPolyline(Paths)
  \/ DoAddRectangle({Origin}, Sizes)
  \/ DoAddCircle(Centers, Sizes)
  \/ DoAddPoint({Pt(1, 1)})
  \/ DoRemoveEntity
  \/ DoUpdateEntity(Updates)
  \/ DoTrimEntity(Clicks)
  \/ DoExtendEntity(Clicks)
  \/ DoOffsetEntity(Clicks, Distances)
  \/ DoAddVerticalConstraint
  \/ DoAddHorizontalConstraint
  \/ DoSolveAllConstraints

Spec == Init /\ [][Next]_vars

\* The editing operations alone: add*, removeEntity, trim, extend, offset.
EditPoints == {Pt(0, 0), Pt(8, 0), Pt(8, 8), Pt(1, 1)}

EditPaths == {<<Pt(4, 0)>>, <<Pt(4, -4), Pt(4, 4), Pt(8, 8)>>}

EditClicks == {Pt(1, 0), Pt(7, 1), Pt(4, 3)}

NextEdit ==
  \/ DoAddLine(EditPoints \X EditPoints)
  \/ DoAddPolyline(EditPaths)
  \/ DoAddRectangle({Origin}, Sizes)
  \/ DoAddCircle(Centers, Sizes)
  \/ DoAddPoint({Pt(1, 1)})
  \/ DoRemoveEntity
  \/ DoTrimEntity(EditClicks)
  \/ DoExtendEntity(EditClicks)
  \/ DoOffsetEntity(EditClicks, Distances)

SpecEdit == Init /\ [][NextEdit]_vars

\* ------------------------------------------------------------------ claims
\* The node ids an entity holds.
HeldNodeIds(e) ==
  IF e.type = "line" THEN {e.startNodeId, e.endNodeId}
  ELSE IF e.type = "polyline" THEN Range(e.nodeIds)
  ELSE IF e.type = "rectangle" THEN {e.cornerNodeId}
  ELSE IF e.type = "circle" THEN {e.centerNodeId}
  ELSE {e.nodeId}

\* C1: in every reachable state every node id held by a stored entity is
\* the id of a node of the node map (no dangling reference).
C1_NoDanglingReference ==
  \A i \in 1..Len(entities) : HeldNodeIds(entities[i]) \subseteq NodeIds(Cur)

\* C2: in every state reached by add*, removeEntity, trimEntity,
\* extendEntity and offsetEntity (so also right after a removeEntity), every
\* node of the node map is referenced by some entity.
C2_NoOrphanNode ==
  \A i \in 1..Len(nodes) :
    \E j \in 1..Len(entities) : nodes[i].id \in HeldNodeIds(entities[j])

\* A removeEntity that deleted a node and left another entity with its nodes.
C2_Witness ==
  /\ last.op = "removeEntity"
  /\ last.changed
  /\ Len(entities) >= 1
  /\ Len(nodes) >= 1
  /\ nextId - 1 > Len(nodes) + Len(entities) + 1

\* Lines and points whose coordinates lie within and beyond the snap distance
\* of each other.
SnapPoints == {Pt(0, 0), Pt(1, 1), Pt(2, 0), Pt(8, 8)}

NextSnap ==
  \/ DoAddLine(SnapPoints \X SnapPoints)
  \/ DoAddPoint(SnapPoints)
  \/ DoRemoveEntity

SpecSnap == Init /\ [][NextSnap]_vars

\* p and q are closer than SNAP_DISTANCE on both axes.
NearPts(p, q) ==
  Abs(p.x - q.x) < SNAP_DISTANCE /\ Abs(p.y - q.y) < SNAP_DISTANCE

\* The entity the last add* call stored.
LastEntity == entities[Len(entities)]

\* addLine(p, q) acquires a node for p and then one for q.
SameNodeForBoth == LastEntity.startNodeId = LastEntity.endNodeId

\* C3 as stated: in any sketch, acquiring p and then a q within SNAP_DISTANCE
\* of p on both axes yields the same node id twice.
C3_Original ==
  (last.op = "addLine" /\ NearPts(last.a, last.b)) => SameNodeForBoth

\* C3: when no node of the sketch lies within SNAP_DISTANCE (on both axes)
\* of p or of q, acquiring p and then a q within SNAP_DISTANCE of p on both
\* axes yields the same node id twice: no second node is created.
C3_SnapDedup ==
  [][(/\ last'.op = "addLine"
      /\ NearPts(last'.a, last'.b)
      /\ SnapHits(Cur, last'.a.x, last'.a.y) = {}
      /\ SnapHits(Cur, last'.b.x, last'.b.y) = {})
     => SameNodeForBoth']_vars

\* Two distinct near points were acquired in a sketch that holds another
\* node, far from both, and one node was created for the two.
C3_Witness ==
  /\ last.op = "addLine"
  /\ last.a # last.b
  /\ NearPts(last.a, last.b)
  /\ Len(nodes) >= 2
  /\ SameNodeForBoth
  /\ GetPoint(Cur, LastEntity.startNodeId) = last.a
  /\ \A i \in 1..Len(nodes) :
       nodes[i].id # LastEntity.startNodeId
         => ~NearPts(nodes[i], last.a) /\ ~NearPts(nodes[i], last.b)

\* ---------------------------------------------------------- trim scenario
\* A horizontal line and vertical lines across it: two of them a quarter
\* apart, one ending a quarter above the horizontal line.
MaxTrimOps == 4

TrimLines ==
  {<<Pt(0, 0), Pt(16, 0)>>, <<Pt(4, -4), Pt(4, 4)>>, <<Pt(5, -4), Pt(5, 4)>>,
   <<Pt(12, -4), Pt(12, 4)>>, <<Pt(8, -4), Pt(8, 1)>>}

TrimClicks == {Pt(2, 1), Pt(9, 1)}

InitTrim == Start(MaxTrimOps)

NextTrim ==
  \/ DoAddLine(TrimLines)
  \/ DoTrimEntity(TrimClicks)

SpecTrim == InitTrim /\ [][NextTrim]_vars

\* The sketch held only lines along the axes, the target a horizontal one of
\* positive length.
AxisAligned(S, targetId) ==
  /\ HasEntity(S, targetId)
  /\ \A i \in 1..Len(S.entities) :
       /\ S.entities[i].type = "line"
       /\ \/ GetPoint(S, S.entities[i].startNodeId).x
               = GetPoint(S, S.entities[i].endNodeId).x
          \/ GetPoint(S, S.entities[i].startNodeId).y
               = GetPoint(S, S.entities[i].endNodeId).y
  /\ GetPoint(S, GetEntity(S, targetId).startNodeId).y
       = GetPoint(S, GetEntity(S, targetId).endNodeId).y
  /\ GetPoint(S, GetEntity(S, targetId).startNodeId).x
       # GetPoint(S, GetEntity(S, targetId).endNodeId).x

\* The x span <<lo, hi>> of a line.
SpanX(S, e) ==
  LET a == GetPoint(S, e.startNodeId).x
      b == GetPoint(S, e.endNodeId).x
  IN IF a <= b THEN <<a, b>> ELSE <<b, a>>

\* The x at which the other lines cross the inside of a horizontal target.
CrossingXs(S, targetId) ==
  LET t == GetEntity(S, targetId)
      ty == GetPoint(S, t.startNodeId).y
      span == SpanX(S, t)
  IN {GetPoint(S, e.startNodeId).x : e \in
        {o \in Range(S.entities) :
           LET p == GetPoint(S, o.startNodeId)
               q == GetPoint(S, o.endNodeId)
           IN /\ o.id # targetId
              /\ p.x = q.x
              /\ p.y # q.y
              /\ span[1] < p.x /\ p.x < span[2]
              /\ (p.y <= ty /\ ty <= q.y) \/ (q.y <= ty /\ ty <= p.y)}}

\* The squared distance from a point to the span <<lo, hi>> at height ty.
SpanDistSq(c, span, ty) ==
  LET dx == IF c.x < span[1] THEN span[1] - c.x
            ELSE IF c.x > span[2] THEN c.x - span[2] ELSE 0
  IN dx * dx + (c.y - ty) * (c.y - ty)

\* The three spans two crossings cut a horizontal target into.
ThreeSpans(S, targetId) ==
  LET span == SpanX(S, GetEntity(S, targetId))
      xs == CrossingXs(S, targetId)
      x1 == MinOf(xs)
      x2 == MinOf(xs \ {x1})
  IN {<<span[1], x1>>, <<x1, x2>>, <<x2, span[2]>>}

\* The spans at the least distance from the click.
ClosestSpans(S, targetId, c) ==
  LET ty == GetPoint(S, GetEntity(S, targetId).startNodeId).y
      all == ThreeSpans(S, targetId)
  IN {sp \in all :
        \A o \in all : SpanDistSq(c, sp, ty) <= SpanDistSq(c, o, ty)}

\* The entities of T that S did not hold.
NewEntities(S, T) == {e \in Range(T.entities) : e.id \notin EntIds(S)}

\* T is S with the target replaced by two new lines that lie on the
\* target's carrier and cover exactly the two spans the click is not
\* closest to.
TrimmedInThree(S, T, targetId, c) ==
  LET ty == GetPoint(S, GetEntity(S, targetId).startNodeId).y
      new == NewEntities(S, T)
  IN /\ ~HasEntity(T, targetId)
     /\ Cardinality(new) = 2
     /\ \A e \in new :
          /\ e.type = "line"
          /\ GetPoint(T, e.startNodeId).y = ty
          /\ GetPoint(T, e.endNodeId).y = ty
     /\ \E gone \in ClosestSpans(S, targetId, c) :
          {SpanX(T, e) : e \in new} = ThreeSpans(S, targetId) \ {gone}

\* C4: when other segments cross a line target at exactly two distinct
\* interior points, trimEntity removes the target and leaves exactly two new
\* lines, which cover the two of the three fragments that are not closest to
\* the click.
C4_TrimPartition ==
  [][(/\ last'.op = "trimEntity"
      /\ AxisAligned(Cur, last'.id)
      /\ Cardinality(CrossingXs(Cur, last'.id)) = 2)
     => TrimmedInThree(Cur, Sk(nodes', entities', constraints', nextId'),
                       last'.id, last'.a)]_vars

\* ------------------------------------------------------------- trim frame
\* The sketch after the step.
Cur2 == Sk(nodes', entities', constraints', nextId')

\* The target's polyline nodes that resolve.
Resolvable(S, e) == SeqFilter(e.nodeIds, {id \in Range(e.nodeIds) : HasNode(S, id)})

\* trimEntity gets past its guards: a line whose two end nodes resolve, a
\* polyline with at least two resolvable nodes.
TrimActs(S, targetId) ==
  /\ HasEntity(S, targetId)
  /\ \/ /\ GetEntity(S, targetId).type = "line"
        /\ HasNode(S, GetEntity(S, targetId).startNodeId)
        /\ HasNode(S, GetEntity(S, targetId).endNodeId)
     \/ /\ GetEntity(S, targetId).type = "polyline"
        /\ Len(Resolvable(S, GetEntity(S, targetId))) >= 2

\* S without one entity.
OthersOf(S, targetId) ==
  [S EXCEPT !.entities = SeqFilter(@, {e \in Range(@) : e.id # targetId})]

\* No segment or circle of another entity cuts the inside of a segment of
\* the target.
Untouched(S, targetId) ==
  LET segs == EntitySegments(S, GetEntity(S, targetId))
  IN \A k \in 1..Len(segs) :
       Len(CutParams(segs[k], GetAllSegments(OthersOf(S, targetId)),
                     GetAllCircles(OthersOf(S, targetId)))) = 2

\* T is S without the target, with new entities that are all lines, every
\* other entity as it was and every surviving node where it was.
TargetReplacedByLines(S, T, targetId) ==
  /\ ~HasEntity(T, targetId)
  /\ \A e \in NewEntities(S, T) : e.type = "line"
  /\ \A e \in Range(S.entities) : e.id # targetId => e \in Range(T.entities)
  /\ \A n \in Range(S.nodes) : HasNode(T, n.id) => GetNode(T, n.id) = n

\* T is S without the target and nothing else is different in the entities.
FullErase(S, T) ==
  /\ Len(T.entities) = Len(S.entities) - 1
  /\ NewEntities(S, T) = {}

\* C5 as stated: trimEntity on any line or polyline target deletes the
\* target, inserts only lines, moves no surviving node, and when nothing
\* intersects the target it deletes the target and creates nothing.
C5_Original ==
  [][(/\ last'.op = "trimEntity"
      /\ HasEntity(Cur, last'.id)
      /\ GetEntity(Cur, last'.id).type \in {"line", "polyline"})
     => /\ TargetReplacedByLines(Cur, Cur2, last'.id)
        /\ Untouched(Cur, last'.id) => FullErase(Cur, Cur2)]_vars

\* C5: trimEntity on a line target whose end nodes resolve, or on a
\* polyline target with at least two resolvable nodes, deletes the target,
\* inserts only lines, leaves every other entity as it was and moves no
\* node that exists before and after; when nothing intersects a line target
\* the target is deleted and no entity is created.
C5_TrimFrame ==
  [][(last'.op = "trimEntity" /\ TrimActs(Cur, last'.id))
     => /\ TargetReplacedByLines(Cur, Cur2, last'.id)
        /\ (GetEntity(Cur, last'.id).type = "line" /\ Untouched(Cur, last'.id))
             => FullErase(Cur, Cur2)]_vars

\* A trim that cut a line where a polyline crosses it: the target is gone,
\* the polyline is still there, and the last entity is a new line from the
\* crossing point to the target's far end.
C5_Witness ==
  /\ last.op = "trimEntity"
  /\ last.changed
  /\ ~HasEntity(Cur, last.id)
  /\ \E e \in Range(entities) :
       e.type = "polyline" /\ e.id < last.id /\ Len(e.nodeIds) = 2
  /\ LastEntity.type = "line"
  /\ LastEntity.id > last.id
  /\ GetPoint(Cur, LastEntity.startNodeId) = Pt(4, 0)
  /\ GetPoint(Cur, LastEntity.endNodeId) = Pt(8, 0)

\* -------------------------------------------------------- extend scenario
\* A horizontal line, a vertical line ahead of its end and one behind its
\* start, and a circle centred on its carrier farther ahead.  The clicks are
\* on the carrier: two nearer the end, one half way.
MaxExtendOps == 4

ExtendLines ==
  {<<Pt(0, 0), Pt(8, 0)>>, <<Pt(16, -4), Pt(16, 4)>>, <<Pt(-8, -4), Pt(-8, 4)>>}

ExtendClicks == {Pt(14, 0), Pt(7, 0), Pt(4, 0)}

InitExtend == Start(MaxExtendOps)

NextExtend ==
  \/ DoAddLine(ExtendLines)
  \/ DoAddCircle({Pt(24, 0)}, Sizes)
  \/ DoExtendEntity(ExtendClicks)

SpecExtend == InitExtend /\ [][NextExtend]_vars

\* extendEntity found an intersection to extend to.
ExtendFound(S, targetId, clickPoint) ==
  ResolvedLine(S, targetId) /\ ~ExtendResult(S, targetId, clickPoint).null

\* C6: an extendEntity that found an intersection changes the coordinates
\* of exactly one node, an end node of the target, and nothing else: the
\* node ids, the entities with their node references and the constraints
\* are as before.
C6_ExtendMovesOneNode ==
  [][(last'.op = "extendEntity" /\ ExtendFound(Cur, last'.id, last'.a))
     => /\ Cardinality(last'.moved) = 1
        /\ last'.moved \subseteq {GetEntity(Cur, last'.id).startNodeId,
                                  GetEntity(Cur, last'.id).endNodeId}
        /\ NodeIds(Cur2) = NodeIds(Cur)
        /\ entities' = entities
        /\ constraints' = constraints]_vars

\* The target is a horizontal line of positive length and every other entity
\* is a line along an axis or a circle centred on the target's carrier.
HorizontalScene(S, targetId) ==
  /\ ResolvedLine(S, targetId)
  /\ LET t == GetEntity(S, targetId)
         ty == GetPoint(S, t.startNodeId).y
     IN /\ GetPoint(S, t.endNodeId).y = ty
        /\ GetPoint(S, t.endNodeId).x # GetPoint(S, t.startNodeId).x
        /\ \A e \in Range(S.entities) :
             \/ /\ e.type = "line"
                /\ \/ GetPoint(S, e.startNodeId).x = GetPoint(S, e.endNodeId).x
                   \/ GetPoint(S, e.startNodeId).y = GetPoint(S, e.endNodeId).y
             \/ /\ e.type = "circle"
                /\ e.radius > 0
                /\ GetPoint(S, e.centerNodeId).y = ty

\* The x at which another entity meets the carrier of a horizontal target.
HitXsOf(S, ty, e) ==
  IF e.type = "circle"
  THEN {GetPoint(S, e.centerNodeId).x - e.radius,
        GetPoint(S, e.centerNodeId).x + e.radius}
  ELSE LET p == GetPoint(S, e.startNodeId)
           q == GetPoint(S, e.endNodeId)
       IN IF /\ p.x = q.x
             /\ p.y # q.y
             /\ (p.y <= ty /\ ty <= q.y) \/ (q.y <= ty /\ ty <= p.y)
          THEN {p.x} ELSE {}

\* The position of the start or of the end of a line.
EndOf(S, t, w) ==
  IF w = "start" THEN GetPoint(S, t.startNodeId) ELSE GetPoint(S, t.endNodeId)

OtherEnd(w) == IF w = "start" THEN "end" ELSE "start"

\* x lies beyond the end w of the target, on the side away from its other end.
Beyond(S, t, w, x) ==
  IF EndOf(S, t, w).x > EndOf(S, t, OtherEnd(w)).x
  THEN x > EndOf(S, t, w).x
  ELSE x < EndOf(S, t, w).x

\* The other entities that meet the carrier beyond the end w.
BarriersAhead(S, targetId, w) ==
  LET t == GetEntity(S, targetId)
  IN {e \in Range(S.entities) :
        /\ e.id # targetId
        /\ \E x \in HitXsOf(S, GetPoint(S, t.startNodeId).y, e) :
             Beyond(S, t, w, x)}

\* The other entities that meet the carrier at the end w.
BarriersAt(S, targetId, w) ==
  LET t == GetEntity(S, targetId)
  IN {e \in Range(S.entities) :
        /\ e.id # targetId
        /\ EndOf(S, t, w).x \in HitXsOf(S, GetPoint(S, t.startNodeId).y, e)}

\* The ends of the target at the least distance from the click.
NearerEnds(S, targetId, c) ==
  LET t == GetEntity(S, targetId)
  IN {w \in {"start", "end"} :
        DistSq(c, EndOf(S, t, w)) <= DistSq(c, EndOf(S, t, OtherEnd(w)))}

\* Nothing lies ahead of the end the click chooses.
NothingAhead(S, targetId, c) ==
  \A w \in NearerEnds(S, targetId, c) : BarriersAhead(S, targetId, w) = {}

\* The step leaves every node, entity and constraint as it was.
NothingChanges ==
  nodes' = nodes /\ entities' = entities /\ constraints' = constraints

\* The last call was an extendEntity that moved an end of its target onto a
\* barrier, and w is that end.
MovedOnto(w) ==
  /\ last.op = "extendEntity"
  /\ HorizontalScene(Cur, last.id)
  /\ last.moved = {IF w = "start" THEN GetEntity(Cur, last.id).startNodeId
                   ELSE GetEntity(Cur, last.id).endNodeId}
  /\ BarriersAt(Cur, last.id, w) # {}

\* The step repeats the last call.
SameCallAgain ==
  last'.op = "extendEntity" /\ last'.id = last.id /\ last'.a = last.a

\* C7 as stated: with nothing ahead of the chosen end extendEntity changes
\* nothing; and once an extendEntity has moved an end onto the only barrier
\* ahead of it, the same call again moves no node.
C7_Original ==
  [][/\ (/\ last'.op = "extendEntity"
         /\ HorizontalScene(Cur, last'.id)
         /\ NothingAhead(Cur, last'.id, last'.a))
          => NothingChanges
     /\ \A w \in {"start", "end"} :
          (/\ MovedOnto(w)
           /\ BarriersAhead(Cur, last.id, w) \subseteq BarriersAt(Cur, last.id, w)
           /\ Cardinality(BarriersAt(Cur, last.id, w)) = 1
           /\ SameCallAgain)
            => nodes' = nodes]_vars

\* C7: with nothing ahead of the end the click chooses extendEntity changes
\* no node, entity or constraint; and once an extendEntity has moved an end
\* onto a barrier, the same call again moves no node provided nothing lies
\* farther ahead of the end that this second call chooses.
C7_ExtendIdempotent ==
  [][/\ (/\ last'.op = "extendEntity"
         /\ HorizontalScene(Cur, last'.id)
         /\ NothingAhead(Cur, last'.id, last'.a))
          => NothingChanges
     /\ \A w \in {"start", "end"} :
          (/\ MovedOnto(w)
           /\ NothingAhead(Cur, last.id, last.a)
           /\ SameCallAgain)
            => nodes' = nodes]_vars

\* The line from (0,0) to (8,0) has its end on the vertical line at x = 16,
\* where an extendEntity put it, and the last call, an extendEntity with the
\* click nearer that end, changed nothing.
C7_Witness ==
  /\ last.op = "extendEntity"
  /\ ~last.changed
  /\ last.a = Pt(14, 0)
  /\ HorizontalScene(Cur, last.id)
  /\ EndOf(Cur, GetEntity(Cur, last.id), "start") = Pt(0, 0)
  /\ EndOf(Cur, GetEntity(Cur, last.id), "end") = Pt(16, 0)
  /\ BarriersAt(Cur, last.id, "end") # {}
  /\ BarriersAhead(Cur, last.id, "end") = {}

\* ------------------------------------------------------------ offset frame
\* The offsets of length d perpendicular to a line along an axis, on the
\* side of the side point when it is off the line.
AxisOffsets(pStart, pEnd, d, side) ==
  IF pStart.y = pEnd.y /\ pStart.x # pEnd.x
  THEN {Pt(0, k) : k \in {j \in {d, -d} : (side.y - pStart.y) * j >= 0}}
  ELSE IF pStart.x = pEnd.x /\ pStart.y # pEnd.y
  THEN {Pt(k, 0) : k \in {j \in {d, -d} : (side.x - pStart.x) * j >= 0}}
  ELSE {}

\* The node of T with the given id is the one acquireNode gives for p in a
\* sketch with the nodes of S and a node at each point of also: inside the
\* snap box of p, and at p when none of those nodes is inside it.
AcquiredAt(S, T, id, p, also) ==
  /\ NearPts(GetPoint(T, id), p)
  /\ (SnapHits(S, p.x, p.y) = {} /\ \A q \in also : ~NearPts(q, p))
       => GetPoint(T, id) = p

\* The new line is the target moved by the offset off: addLine acquires the
\* moved start, then the moved end.
OffsetBy(S, T, target, new, off) ==
  LET pStart == GetPoint(S, target.startNodeId)
      pEnd == GetPoint(S, target.endNodeId)
      newStart == Pt(pStart.x + off.x, pStart.y + off.y)
      newEnd == Pt(pEnd.x + off.x, pEnd.y + off.y)
  IN /\ AcquiredAt(S, T, new.startNodeId, newStart, {})
     /\ AcquiredAt(S, T, new.endNodeId, newEnd, {newStart})

\* C8: offsetEntity on a line (whose end nodes resolve) adds exactly one
\* entity, a line with an id no entity or node had; the target, every other
\* entity, every node that existed and every constraint are as before; and
\* the new line is placed from the target's own end points: for a target
\* along an axis, at the given distance perpendicular to it.
C8_OffsetNonDestructive ==
  [][(last'.op = "offsetEntity" /\ ResolvedLine(Cur, last'.id))
     => /\ Len(entities') = Len(entities) + 1
        /\ SubSeq(entities', 1, Len(entities)) = entities
        /\ LastEntity'.type = "line"
        /\ LastEntity'.id >= nextId
        /\ LastEntity'.id \notin EntIds(Cur) \cup NodeIds(Cur)
        /\ Len(nodes') >= Len(nodes)
        /\ SubSeq(nodes', 1, Len(nodes)) = nodes
        /\ constraints' = constraints
        /\ LET target == GetEntity(Cur, last'.id)
               axis == AxisOffsets(GetPoint(Cur, target.startNodeId),
                                   GetPoint(Cur, target.endNodeId),
                                   last'.b.x, last'.a)
           IN axis # {} =>
                \E off \in axis : OffsetBy(Cur, Cur2, target, LastEntity', off)]_vars

\* An offset of a constrained vertical line: the target is still where it
\* was and the last entity is a new line with new nodes, the target's end
\* points moved sideways by the distance.
C8_Witness ==
  /\ last.op = "offsetEntity"
  /\ last.changed
  /\ constraints # <<>>
  /\ ResolvedLine(Cur, last.id)
  /\ LastEntity.id > last.id
  /\ LastEntity.type = "line"
  /\ LET target == GetEntity(Cur, last.id)
         pStart == GetPoint(Cur, target.startNodeId)
         pEnd == GetPoint(Cur, target.endNodeId)
     IN /\ pStart.x = pEnd.x
        /\ pStart.y # pEnd.y
        /\ \E k \in {last.b.x, -last.b.x} :
             /\ k # 0
             /\ GetPoint(Cur, LastEntity.startNodeId) = Pt(pStart.x + k, pStart.y)
             /\ GetPoint(Cur, LastEntity.endNodeId) = Pt(pEnd.x + k, pEnd.y)

\* -------------------------------------------------------- solver scenario
\* A slanted line, a second line from its end to a far point, and a line
\* apart from both.
MaxSolveOps == 5

SolveLines ==
  {<<Pt(0, 0), Pt(8, 16)>>, <<Pt(8, 16), Pt(1048576, 32)>>,
   <<Pt(40, 0), Pt(48, 8)>>}

InitSolve == Start(MaxSolveOps)

NextSolve ==
  \/ DoAddLine(SolveLines)
  \/ DoAddVerticalConstraint
  \/ DoAddHorizontalConstraint
  \/ DoSolveAllConstraints

SpecSolve == InitSolve /\ [][NextSolve]_vars

\* The axis a constraint-adding operation aligns.
AxisOf(op) == IF op = "addVerticalConstraint" THEN "x" ELSE "y"

\* The step adds a constraint on a line with two distinct end nodes.
ConstraintAdded ==
  /\ last'.op \in {"addVerticalConstraint", "addHorizontalConstraint"}
  /\ Len(constraints') = Len(constraints) + 1
  /\ ResolvedLine(Cur, last'.id)
  /\ GetEntity(Cur, last'.id).startNodeId # GetEntity(Cur, last'.id).endNodeId

\* The end nodes of the constrained line agree on the axis after the step.
EndsAligned ==
  GetNode(Cur2, GetEntity(Cur, last'.id).startNodeId)[AxisOf(last'.op)]
    = GetNode(Cur2, GetEntity(Cur, last'.id).endNodeId)[AxisOf(last'.op)]

\* The last call added a constraint and the step is a solveAllConstraints.
SolveAfterAdd ==
  /\ last.op \in {"addVerticalConstraint", "addHorizontalConstraint"}
  /\ last.changed
  /\ last'.op = "solveAllConstraints"

\* No two constraints of the same kind are on lines that share a node.
NoSharedNode(S) ==
  \A i, j \in 1..Len(S.constraints) :
    (i # j /\ S.constraints[i].type = S.constraints[j].type)
      => HeldNodeIds(GetEntity(S, S.constraints[i].entityIds[1]))
           \cap HeldNodeIds(GetEntity(S, S.constraints[j].entityIds[1])) = {}

\* C9 as stated: after a vertical (horizontal) constraint is added to a line
\* with distinct end nodes the two nodes have equal x (y), and a further
\* solveAllConstraints leaves every node where it is.
C9_Original ==
  [][/\ ConstraintAdded => EndsAligned
     /\ SolveAfterAdd => nodes' = nodes]_vars

\* C9: after a vertical (horizontal) constraint is added to a line with
\* distinct end nodes the two nodes have equal x (y); and when no two
\* constraints of the same kind are on lines that share a node, a further
\* solveAllConstraints leaves every node where it is.
C9_ConstraintConverges ==
  [][/\ ConstraintAdded => EndsAligned
     /\ (SolveAfterAdd /\ NoSharedNode(Cur)) => nodes' = nodes]_vars

\* A solveAllConstraints that moved nothing, right after the constraints
\* were added: the slanted line from (0,0) to (8,16) stands at x = 4 under a
\* vertical constraint, and the line apart is constrained too.
C9_Witness ==
  /\ last.op = "solveAllConstraints"
  /\ ~last.changed
  /\ Len(constraints) = 2
  /\ NoSharedNode(Cur)
  /\ \E i \in 1..Len(constraints) :
       /\ constraints[i].type = "vertical"
       /\ HasEntity(Cur, constraints[i].entityIds[1])
       /\ LET e == GetEntity(Cur, constraints[i].entityIds[1])
          IN /\ GetPoint(Cur, e.startNodeId) = Pt(4, 0)
             /\ GetPoint(Cur, e.endNodeId) = Pt(4, 16)

\* ------------------------------------------------------- contour scenario
\* The sides and the diagonals of a square, two of them in both directions,
\* and a rectangle.
MaxContourOps == 4

ContourLines ==
  {<<Pt(0, 0), Pt(8, 0)>>, <<Pt(8, 0), Pt(8, 8)>>, <<Pt(8, 8), Pt(0, 0)>>,
   <<Pt(8, 8), Pt(0, 8)>>, <<Pt(0, 8), Pt(0, 0)>>, <<Pt(8, 0), Pt(0, 8)>>,
   <<Pt(8, 0), Pt(0, 0)>>, <<Pt(0, 0), Pt(8, 8)>>}

InitContour == Start(MaxContourOps)

NextContour ==
  \/ DoAddLine(ContourLines)
  \/ DoAddRectangle({Pt(16, 0)}, Sizes)
  \/ DoRemoveEntity

SpecContour == InitContour /\ [][NextContour]_vars

\* The line entities of a sketch and the node ids they join.
LinesOf(S) == {e \in Range(S.entities) : e.type = "line"}

EndsOf(l) == {l.startNodeId, l.endNodeId}

LineNodes(S) == UNION {EndsOf(l) : l \in LinesOf(S)}

\* The node ids joined to a set of node ids by lines, the set included.
RECURSIVE Reach(_, _)
Reach(S, ids) ==
  LET more == ids \cup UNION {EndsOf(l) : l \in {k \in LinesOf(S) : EndsOf(k) \cap ids # {}}}
  IN IF more = ids THEN ids ELSE Reach(S, more)

\* The lines form one simple cycle of n >= 3 edges and there is no polyline:
\* distinct edges between distinct nodes, two at every node, all connected.
IsSimpleCycle(S) ==
  /\ \A e \in Range(S.entities) : e.type # "polyline"
  /\ Cardinality(LinesOf(S)) >= 3
  /\ \A l \in LinesOf(S) :
       /\ l.startNodeId # l.endNodeId
       /\ HasNode(S, l.startNodeId) /\ HasNode(S, l.endNodeId)
  /\ \A l, k \in LinesOf(S) : l # k => EndsOf(l) # EndsOf(k)
  /\ \A id \in LineNodes(S) :
       Cardinality({l \in LinesOf(S) : id \in EndsOf(l)}) = 2
  /\ \A id \in LineNodes(S) : Reach(S, {id}) = LineNodes(S)

\* The rectangles getClosedContours adds a contour for.
RectanglesOf(S) ==
  {e \in Range(S.entities) : e.type = "rectangle" /\ HasNode(S, e.cornerNodeId)}

\* The last contour returned has exactly the coordinates of the line nodes.
LastContourIsCycle(S) ==
  LET r == GetClosedContours(S)
  IN /\ ~r.threw
     /\ r.cycles # <<>>
     /\ Range(r.cycles[Len(r.cycles)].pts) = {GetPoint(S, id) : id \in LineNodes(S)}

CornersOf(S, e) ==
  LET q == GetPoint(S, e.cornerNodeId)
  IN <<q, Pt(q.x + e.width, q.y), Pt(q.x + e.width, q.y + e.height),
       Pt(q.x, q.y + e.height)>>

\* A polygon whose every vertex lies on the circle.
OnCircle(S, e, pts) ==
  /\ pts # <<>>
  /\ \A i \in 1..Len(pts) :
       DistSq(GetPoint(S, e.centerNodeId), pts[i]) = e.radius * e.radius

\* The rectangle half of C11: every rectangle's corners are a contour.
RectanglesAreContours ==
  \A e \in Range(entities) :
    e.type = "rectangle" /\ HasNode(Cur, e.cornerNodeId)
      => \E i \in 1..Len(GetClosedContours(Cur).cycles) :
           GetClosedContours(Cur).cycles[i].pts = CornersOf(Cur, e)

\* C11: in every state getClosedContours returns, for every rectangle, the
\* contour of its four corners and, for every circle, a contour whose
\* vertices lie on that circle.
C11_RectangleCircleContour ==
  /\ RectanglesAreContours
  /\ \A e \in Range(entities) :
       e.type = "circle" /\ HasNode(Cur, e.centerNodeId)
         => \E i \in 1..Len(GetClosedContours(Cur).cycles) :
              OnCircle(Cur, e, GetClosedContours(Cur).cycles[i].pts)

\* ---------------------------------------------------- construction geometry
\* The sketch without the entities whose construction flag is set.
WithoutConstruction(S) ==
  [S EXCEPT !.entities = SeqFilter(@, {e \in Range(@) : ~e.construction})]

\* C12: getClosedContours returns what it returns for the same sketch with
\* every construction entity removed.
C12_ConstructionExcluded ==
  GetClosedContours(Cur).cycles = GetClosedContours(WithoutConstruction(Cur)).cycles

\* --------------------------------------------------------- target scenario
\* The operations that take an entity id, called with any id: every id
\* allocated so far (nodes, entities, constraints) and 0, which never is.
MaxTargetOps == 4

TargetLines == {<<Pt(0, 0), Pt(8, 0)>>, <<Pt(4, -4), Pt(4, 4)>>}

TargetPaths == {<<Pt(12, -4), Pt(12, 4)>>}

TargetIds == 0..(nextId - 1)

DoRemoveEntityOf(I) ==
  \E id \in I :
    Apply(RemoveEntity(Cur, id), Op("removeEntity", id, Origin, Origin))

DoTrimEntityOf(I, C) ==
  \E id \in I, c \in C :
    Apply(TrimEntity(Cur, id, c), Op("trimEntity", id, c, Origin))

DoExtendEntityOf(I, C) ==
  \E id \in I, c \in C :
    Apply(ExtendEntity(Cur, id, c), Op("extendEntity", id, c, Origin))

DoOffsetEntityOf(I, C, D) ==
  \E id \in I, d \in D, c \in C :
    Apply(OffsetEntity(Cur, id, d, c), Op("offsetEntity", id, c, Pt(d, 0)))

\* The Result returned is kept with the operation.
DoAddVerticalConstraintOf(I) ==
  \E id \in I :
    LET r == AddVerticalConstraint(Cur, id)
    IN Apply(r.S, MergeRec(Op("addVerticalConstraint", id, Origin, Origin),
                           [success |-> r.success, value |-> r.value]))

DoAddHorizontalConstraintOf(I) ==
  \E id \in I :
    LET r == AddHorizontalConstraint(Cur, id)
    IN Apply(r.S, MergeRec(Op("addHorizontalConstraint", id, Origin, Origin),
                           [success |-> r.success, value |-> r.value]))

InitTarget == Start(MaxTargetOps)

NextTarget ==
  \/ DoAddLine(TargetLines)
  \/ DoAddPolyline(TargetPaths)
  \/ DoAddCircle(Centers, Sizes)
  \/ DoRemoveEntityOf(TargetIds)
  \/ DoTrimEntityOf(TargetIds, {Pt(7, 1)})
  \/ DoExtendEntityOf(TargetIds, {Pt(7, 1)})
  \/ DoOffsetEntityOf(TargetIds, {Pt(7, 1)}, Distances)
  \/ DoAddVerticalConstraintOf(TargetIds)
  \/ DoAddHorizontalConstraintOf(TargetIds)

SpecTarget == InitTarget /\ [][NextTarget]_vars

\* The target id names no entity, or an entity of a type the operation
\* does not work on.
InvalidTarget(S, op, id) ==
  \/ \A e \in Range(S.entities) : e.id # id
  \/ \E e \in Range(S.entities) :
       /\ e.id = id
       /\ \/ op \in {"extendEntity", "offsetEntity"} /\ e.type # "line"
          \/ op = "trimEntity" /\ e.type \notin {"line", "polyline"}

\* C13: removeEntity, trimEntity, extendEntity and offsetEntity with an
\* unknown entity id, extendEntity and offsetEntity on an entity that is not
\* a line, and trimEntity on an entity that is neither a line nor a polyline
\* leave nodes, entities and constraints exactly as they were.
C13_InvalidTargetNoOp ==
  [][(/\ last'.op \in {"removeEntity", "trimEntity", "extendEntity", "offsetEntity"}
      /\ InvalidTarget(Cur, last'.op, last'.id))
       => /\ nodes' = nodes
          /\ entities' = entities
          /\ constraints' = constraints]_vars

\* trimEntity was called on the circle that cuts the line (0,0)-(8,0), and
\* the sketch holds what it held.
C13_Witness ==
  /\ last.op = "trimEntity"
  /\ ~last.changed
  /\ \E e \in Range(entities) : e.id = last.id /\ e.type = "circle"
  /\ \E e \in Range(entities) :
       /\ e.type = "line"
       /\ GetPoint(Cur, e.startNodeId) = Pt(0, 0)
       /\ GetPoint(Cur, e.endNodeId) = Pt(8, 0)

\* -------------------------------------------------------- degenerate input
\* The entity an add* step stored, when it stored one.
Stored(S, T) == Len(T.entities) > Len(S.entities)

\* C14: an addLine whose two end points coincide leaves nodes and entities
\* unchanged, no addLine stores a line whose two ends are the same node, and
\* no addCircle stores a circle whose radius is zero or negative.
C14_DegenerateRejected ==
  [][/\ (last'.op = "addLine" /\ last'.a = last'.b)
          => nodes' = nodes /\ entities' = entities
     /\ (last'.op = "addLine" /\ Stored(Cur, Cur'))
          => entities'[Len(entities')].startNodeId # entities'[Len(entities')].endNodeId
     /\ (last'.op = "addCircle" /\ Stored(Cur, Cur'))
          => entities'[Len(entities')].radius > 0]_vars

\* ------------------------------------------------------------ export, load
\* The profiles field: the point lists getClosedContours returns.
Profiles(S) ==
  [i \in 1..Len(GetClosedContours(S).cycles) |-> GetClosedContours(S).cycles[i].pts]

\* Sketcher.exportToNode: the values of the three maps as arrays, in map
\* order, and the closed contours.
ExportToNode(S, planeId) ==
  [type |-> "sketch", planeId |-> planeId,
   nodes |-> S.nodes, entities |-> S.entities, constraints |-> S.constraints,
   fullyConstrained |-> FALSE, profiles |-> Profiles(S)]

\* Map.set(v.id, v): v replaces the value stored under its id, in place;
\* a new id is appended.
MapSet(m, v) ==
  IF \E i \in 1..Len(m) : m[i].id = v.id
  THEN [m EXCEPT ![CHOOSE i \in 1..Len(m) : m[i].id = v.id] = v]
  ELSE Append(m, v)

RECURSIVE MapSetAll(_, _)
MapSetAll(m, vs) ==
  IF vs = <<>> THEN m ELSE MapSetAll(MapSet(m, Head(vs)), Tail(vs))

\* Sketcher.clear
Clear(S) == [S EXCEPT !.nodes = <<>>, !.entities = <<>>, !.constraints = <<>>]

\* A load that keeps what the sketch held.
LoadFromNode_NoClear(S, sketch) ==
  [S EXCEPT
     !.nodes = IF "nodes" \in DOMAIN sketch THEN MapSetAll(@, sketch.nodes) ELSE @,
     !.entities = MapSetAll(@, sketch.entities),
     !.constraints = MapSetAll(@, sketch.constraints)]

\* Sketcher.loadFromNode: clear, then every node (copied), entity and
\* constraint of the record is set under its id.
LoadFromNode(S, sketch) ==
  [Clear(S) EXCEPT
     !.nodes = IF "nodes" \in DOMAIN sketch THEN MapSetAll(@, sketch.nodes) ELSE @,
     !.entities = MapSetAll(@, sketch.entities),
     !.constraints = MapSetAll(@, sketch.constraints)]

\* exportToNode calls getClosedContours first: when that throws, no record
\* is returned and the caller keeps the record it had.
DoExportToNode ==
  IF GetClosedContours(Cur).threw
  THEN Apply(Cur, MergeRec(Op("exportToNode", 0, Origin, Origin), [threw |-> TRUE]))
  ELSE Step(Cur, MergeRec(Op("exportToNode", 0, Origin, Origin), [threw |-> FALSE]),
            [made |-> TRUE, live |-> TRUE, from |-> Cur,
             record |-> ExportToNode(Cur, "plane")])

\* The record held is loaded; the map then holds copies of its nodes.
DoLoadFromNode ==
  /\ exported.made
  /\ Step(LoadFromNode(Cur, exported.record),
          Op("loadFromNode", 0, Origin, Origin),
          [exported EXCEPT !.live = FALSE])

\* ----------------------------------------------------------- store scenario
MaxStoreOps == 6

StoreLines == {<<Pt(0, 0), Pt(8, 4)>>}

InitStore == Start(MaxStoreOps)

NextStore ==
  \/ DoAddLine(StoreLines)
  \/ DoAddRectangle({Pt(0, 8)}, Sizes)
  \/ DoAddVerticalConstraint
  \/ DoUpdateEntity([start : {Pt(8, 8)}])
  \/ DoRemoveEntity
  \/ DoExportToNode
  \/ DoLoadFromNode

SpecStore == InitStore /\ [][NextStore]_vars

\* The record held is the record exportToNode produced.
AsProduced(x) == x.record = ExportToNode(x.from, x.record.planeId)

\* C15: loading the record exportToNode produced for a sketch, into a
\* Sketcher holding anything, yields the nodes (ids and coordinates), the
\* entities and the constraints of the exporting sketch, none twice, and the
\* same getClosedContours result.
C15_ExportLoadRoundTrip ==
  [][(last'.op = "loadFromNode" /\ AsProduced(exported))
       => /\ Range(nodes') = Range(exported.from.nodes)
          /\ Len(nodes') = Len(exported.from.nodes)
          /\ Range(entities') = Range(exported.from.entities)
          /\ Len(entities') = Len(exported.from.entities)
          /\ Range(constraints') = Range(exported.from.constraints)
          /\ Len(constraints') = Len(exported.from.constraints)
          /\ GetClosedContours(Cur2).cycles = GetClosedContours(exported.from).cycles
          /\ Profiles(Cur2) = exported.record.profiles]_vars

\* A sketch with a constrained line and a rectangle was exported, the
\* Sketcher then lost an entity, and the load brought the exported state back.
C15_Witness ==
  /\ last.op = "loadFromNode"
  /\ last.changed
  /\ AsProduced(exported)
  /\ Len(exported.from.constraints) = 1
  /\ Len(exported.from.entities) = 2
  /\ Len(GetClosedContours(exported.from).cycles) = 1
  /\ nodes = exported.from.nodes
  /\ entities = exported.from.entities
  /\ constraints = exported.from.constraints

\* ------------------------------------------------------- constraint results
\* The constraint type an operation adds.
TypeOf(op) == IF op = "addVerticalConstraint" THEN "vertical" ELSE "horizontal"

\* The cases in which the claim has the call refused.
Refused(S, type, id) ==
  \/ \A e \in Range(S.entities) : e.id # id
  \/ \E e \in Range(S.entities) : e.id = id /\ e.type # "line"
  \/ \E c \in Range(S.constraints) : c.type = type /\ c.entityIds = <<id>>

\* No line carries two constraints of the same type.
NoDoubleConstraint ==
  \A i, j \in 1..Len(constraints) :
    (/\ i # j
     /\ constraints[i].type = constraints[j].type)
      => constraints[i].entityIds # constraints[j].entityIds

\* C16: addVerticalConstraint / addHorizontalConstraint fail and leave the
\* constraints and the node coordinates unchanged when the id is unknown,
\* the entity is not a line, or the line has a constraint of that type;
\* otherwise they succeed, append exactly one enabled constraint of that
\* type on that entity under a new id, and return that id.  No line ever
\* carries two constraints of the same type.
C16_ConstraintResult ==
  /\ []NoDoubleConstraint
  /\ [][last'.op \in {"addVerticalConstraint", "addHorizontalConstraint"}
          => IF Refused(Cur, TypeOf(last'.op), last'.id)
             THEN /\ ~last'.success
                  /\ constraints' = constraints
                  /\ nodes' = nodes
             ELSE /\ last'.success
                  /\ Len(constraints') = Len(constraints) + 1
                  /\ SubSeq(constraints', 1, Len(constraints)) = constraints
                  /\ constraints'[Len(constraints')] =
                       [id |-> last'.value, type |-> TypeOf(last'.op),
                        entityIds |-> <<last'.id>>, enabled |-> TRUE]
                  /\ \A c \in Range(constraints) : c.id # last'.value]_vars

\* A second addVerticalConstraint on a line that is vertical already and has
\* a horizontal neighbour constraint was refused.
C16_Witness ==
  /\ last.op = "addVerticalConstraint"
  /\ ~last.success
  /\ ~last.changed
  /\ \E c \in Range(constraints) : c.type = "vertical" /\ c.entityIds = <<last.id>>
  /\ \E c \in Range(constraints) : c.type = "horizontal" /\ c.entityIds = <<last.id>>

\* ----------------------------------------------------------- fatal scenario
\* Three lines closing a triangle, two of them starting at the same corner;
\* updateEntity gives a line a start node id that no node has.
MaxFatalOps == 5

FatalLines ==
  {<<Pt(0, 0), Pt(8, 0)>>, <<Pt(0, 0), Pt(8, 8)>>, <<Pt(8, 0), Pt(8, 8)>>}

InitFatal == Start(MaxFatalOps)

NextFatal ==
  \/ DoAddLine(FatalLines)
  \/ DoUpdateEntity([startNodeId : {0}])
  \/ DoExportToNode
  \/ DoLoadFromNode

SpecFatal == InitFatal /\ [][NextFatal]_vars

\* C17: in every reachable state getClosedContours completes without
\* raising an exception (trimEntity, extendEntity, offsetEntity and
\* solveAllConstraints test every node they look up, and always complete).
C17_NothingFatal == ~GetClosedContours(Cur).threw

\* --------------------------------------------------------- node acquisition
\* The indices of the nodes inside the snap box of p, each axis on its own.
InBox(S, p) ==
  {i \in 1..Len(S.nodes) : NearPts(Pt(S.nodes[i].x, S.nodes[i].y), p)}

MaxReachOps == 4

ReachLines ==
  {<<Pt(0, 0), Pt(8, 0)>>, <<Pt(10, -4), Pt(10, 4)>>, <<Pt(16, -4), Pt(16, 4)>>}

InitReach == Start(MaxReachOps)

NextReach ==
  \/ DoAddLine(ReachLines)
  \/ DoExtendEntity({Pt(7, 0)})

SpecReach == InitReach /\ [][NextReach]_vars

\* The x at which the other entities meet the carrier beyond the end w of a
\* horizontal target.
HitsAhead(S, targetId, w) ==
  LET t == GetEntity(S, targetId)
  IN {x \in UNION {HitXsOf(S, GetPoint(S, t.startNodeId).y, e) :
                     e \in {f \in Range(S.entities) : f.id # targetId}} :
        Beyond(S, t, w, x)}

\* The one of them nearest to that end.
NearestAhead(S, targetId, w) ==
  LET t == GetEntity(S, targetId)
  IN CHOOSE x \in HitsAhead(S, targetId, w) :
       \A o \in HitsAhead(S, targetId, w) :
         Abs(x - EndOf(S, t, w).x) <= Abs(o - EndOf(S, t, w).x)

\* C19: extendEntity on a horizontal line, with the click strictly nearer one
\* end, leaves the other end where it is and, when another segment or a
\* circle meets the carrier ahead of the nearer end, moves that end to the
\* nearest such intersection, however close it is.
C19_ExtendToNearest ==
  [][(/\ last'.op = "extendEntity"
      /\ HorizontalScene(Cur, last'.id)
      /\ Cardinality(NearerEnds(Cur, last'.id, last'.a)) = 1)
       => \A w \in NearerEnds(Cur, last'.id, last'.a) :
            LET t == GetEntity(Cur, last'.id)
            IN /\ EndOf(Cur2, t, OtherEnd(w)) = EndOf(Cur, t, OtherEnd(w))
               /\ HitsAhead(Cur, last'.id, w) # {}
                    => EndOf(Cur2, t, w) =
                         Pt(NearestAhead(Cur, last'.id, w), EndOf(Cur, t, w).y)]_vars

\* ------------------------------------------------------- offset placement
\* C20: offsetEntity with a non-zero distance d, on a line along an axis,
\* stores a line whose end points are the target's end points moved by d
\* perpendicular to the target, on the side of the side point (so the new
\* line is parallel to the target and |d| away from it), and whose nodes are
\* not the target's nodes.
C20_OffsetTranslates ==
  [][(/\ last'.op = "offsetEntity"
      /\ ResolvedLine(Cur, last'.id)
      /\ last'.b.x # 0)
       => LET target == GetEntity(Cur, last'.id)
              pStart == GetPoint(Cur, target.startNodeId)
              pEnd == GetPoint(Cur, target.endNodeId)
              axis == AxisOffsets(pStart, pEnd, last'.b.x, last'.a)
          IN axis # {}
               => /\ Len(entities') = Len(entities) + 1
                  /\ LastEntity'.type = "line"
                  /\ \E off \in axis :
                       /\ GetPoint(Cur2, LastEntity'.startNodeId) =
                            Pt(pStart.x + off.x, pStart.y + off.y)
                       /\ GetPoint(Cur2, LastEntity'.endNodeId) =
                            Pt(pEnd.x + off.x, pEnd.y + off.y)
                  /\ {LastEntity'.startNodeId, LastEntity'.endNodeId}
                       \cap {target.startNodeId, target.endNodeId} = {}]_vars

\* Lines along the axes, a point beside them, and offsets by less than and by
\* more than the snap distance.
MaxOffsetOps == 3
OffsetLines == {<<Pt(0, 0), Pt(8, 0)>>, <<Pt(0, 0), Pt(0, 8)>>}

InitOffset == Start(MaxOffsetOps)

NextOffset ==
  \/ DoAddLine(OffsetLines)
  \/ DoAddPoint({Pt(1, 3)})
  \/ DoOffsetEntity({Pt(4, 2), Pt(4, -2), Pt(-4, 4)}, {1, 4})

SpecOffset == InitOffset /\ [][NextOffset]_vars

\* ------------------------------------------------------ trim of a polyline
\* A polyline of two segments, a line across its first segment, and a line
\* across it that ends a quarter above it.
MaxPolyOps == 3

PolyPaths == {<<Pt(0, 0), Pt(16, 0), Pt(16, 8)>>}

PolyLines == {<<Pt(8, -4), Pt(8, 4)>>, <<Pt(8, -4), Pt(8, 1)>>}

PolyClicks == {Pt(2, 1), Pt(15, 4)}

InitPoly == Start(MaxPolyOps)

NextPoly ==
  \/ DoAddPolyline(PolyPaths)
  \/ DoAddLine(PolyLines)
  \/ DoTrimEntity(PolyClicks)

SpecPoly == InitPoly /\ [][NextPoly]_vars

\* The end points of a stored line.
LineSeg(S, e) == Seg(GetPoint(S, e.startNodeId), GetPoint(S, e.endNodeId))

\* The segments of the polyline nearest to the click.
NearestSegs(c, segs) ==
  {i \in 1..Len(segs) :
     \A j \in 1..Len(segs) :
       FracLe(ProjectDistSq(c, segs[i].p1, segs[i].p2),
              ProjectDistSq(c, segs[j].p1, segs[j].p2))}

\* The polyline target is gone and the new entities are lines.
BrokenUp(S, T, targetId) ==
  /\ ~HasEntity(T, targetId)
  /\ \A e \in NewEntities(S, T) : e.type = "line" /\ ResolvedLine(T, e.id)

\* The new entities are, one for one, lines on the segments of the polyline
\* other than segment i and on the fragments of segment i that are left
\* when it is cut by the geometry other than itself and the fragment nearest
\* to the click is taken away.
ReplacedBySegments(S, T, targetId, c, i) ==
  LET segs == EntitySegments(S, GetEntity(S, targetId))
      rest == DropAt(segs, i)
      other == GetAllSegments(OthersOf(S, targetId)) \o rest
      left == LongSegs(CalculateTrim(segs[i], c, other, GetAllCircles(S)).frags)
      want == rest \o left
      new == NewEntities(S, T)
  IN /\ Cardinality(new) = Len(want)
     /\ \A sg \in Range(want) \cup {LineSeg(T, e) : e \in new} :
          Cardinality({e \in new : LineSeg(T, e) = sg})
            = Cardinality({k \in 1..Len(want) : want[k] = sg})

\* The same for the segments other than the clicked one alone.
OtherSegmentsKept(S, T, targetId, c, i) ==
  LET segs == EntitySegments(S, GetEntity(S, targetId))
      rest == DropAt(segs, i)
      new == NewEntities(S, T)
  IN \A sg \in Range(rest) :
       Cardinality({e \in new : LineSeg(T, e) = sg})
         >= Cardinality({k \in 1..Len(rest) : rest[k] = sg})

\* A polyline all of whose nodes resolve, of at least one segment.
WholePolyline(S, targetId) ==
  /\ HasEntity(S, targetId)
  /\ GetEntity(S, targetId).type = "polyline"
  /\ Len(GetEntity(S, targetId).nodeIds) >= 2
  /\ \A id \in Range(GetEntity(S, targetId).nodeIds) : HasNode(S, id)

\* C21: trimEntity on a polyline removes the polyline and stores a line on
\* each segment other than the one nearest to the click, at the segment's
\* end points, and a line on each fragment of the clicked segment that is
\* left, the cuts taken against the geometry other than that segment.
C21_PolylineTrim ==
  [][(last'.op = "trimEntity" /\ WholePolyline(Cur, last'.id))
     => /\ BrokenUp(Cur, Cur2, last'.id)
        /\ \E i \in NearestSegs(last'.a, EntitySegments(Cur, GetEntity(Cur, last'.id))) :
             ReplacedBySegments(Cur, Cur2, last'.id, last'.a, i)]_vars

\* The part of C21 on the polyline and its other segments.
PolylineBrokenUp ==
  [][(last'.op = "trimEntity" /\ WholePolyline(Cur, last'.id))
     => /\ BrokenUp(Cur, Cur2, last'.id)
        /\ \E i \in NearestSegs(last'.a, EntitySegments(Cur, GetEntity(Cur, last'.id))) :
             OtherSegmentsKept(Cur, Cur2, last'.id, last'.a, i)]_vars

\* ---------------------------------------------------------- saved sketches
\* Sketches as loadFromNode is given them, with ids of their own: two
\* lines that share a node, under a vertical constraint each, and a line
\* apart under a disabled horizontal constraint; two lines with fixed end
\* nodes, one under a vertical and one under a horizontal constraint not
\* yet solved; a line beside an arc and a spline.
MaxSavedOps == 4

SavedLine(id, a, b) ==
  [id |-> id, type |-> "line", startNodeId |-> a, endNodeId |-> b,
   construction |-> FALSE]

SavedConstraint(id, type, entityId, enabled) ==
  [id |-> id, type |-> type, entityIds |-> <<entityId>>, enabled |-> enabled]

SavedPulls ==
  [nodes |-> <<[id |-> 101, x |-> 0, y |-> 0], [id |-> 102, x |-> 8, y |-> 16],
               [id |-> 103, x |-> 1048576, y |-> 32],
               [id |-> 104, x |-> 40, y |-> 0], [id |-> 105, x |-> 48, y |-> 8]>>,
   entities |-> <<SavedLine(111, 101, 102), SavedLine(112, 102, 103),
                  SavedLine(113, 104, 105)>>,
   constraints |-> <<SavedConstraint(121, "vertical", 112, TRUE),
                     SavedConstraint(122, "horizontal", 113, FALSE),
                     SavedConstraint(123, "vertical", 111, TRUE)>>]

SavedFixed ==
  [nodes |-> <<[id |-> 101, x |-> 0, y |-> 0, fixed |-> TRUE],
               [id |-> 102, x |-> 8, y |-> 16, fixed |-> FALSE],
               [id |-> 103, x |-> 40, y |-> 0, fixed |-> TRUE],
               [id |-> 104, x |-> 48, y |-> 8, fixed |-> TRUE]>>,
   entities |-> <<SavedLine(111, 101, 102), SavedLine(112, 103, 104)>>,
   constraints |-> <<SavedConstraint(121, "vertical", 111, TRUE),
                     SavedConstraint(122, "horizontal", 112, TRUE)>>]

SavedCurves ==
  [nodes |-> <<[id |-> 101, x |-> 0, y |-> 0], [id |-> 102, x |-> 8, y |-> 0],
               [id |-> 103, x |-> 4, y |-> 4],
               [id |-> 104, x |-> 16, y |-> 0], [id |-> 105, x |-> 16, y |-> 8]>>,
   entities |-> <<SavedLine(111, 101, 102),
                  [id |-> 112, type |-> "arc", centerNodeId |-> 103, radius |-> 4,
                   startAngle |-> 0, endAngle |-> 1, construction |-> FALSE],
                  [id |-> 113, type |-> "spline", controlPointNodeIds |-> <<104, 105>>,
                   degree |-> 1, construction |-> FALSE]>>,
   constraints |-> <<>>]

\* loadFromNode of a sketch that was saved elsewhere; the map then holds
\* copies of its nodes.
DoLoadFromNodeOf(R) ==
  \E sketch \in R :
    Step(LoadFromNode(Cur, sketch), Op("loadFromNode", 0, Origin, Origin),
         [exported EXCEPT !.live = FALSE])

InitSaved == Start(MaxSavedOps)

NextSaved ==
  \/ DoLoadFromNodeOf({SavedPulls, SavedFixed, SavedCurves})
  \/ DoRemoveEntity
  \/ DoAddVerticalConstraint
  \/ DoAddHorizontalConstraint
  \/ DoSolveAllConstraints

SpecSaved == InitSaved /\ [][NextSaved]_vars

\* ------------------------------------------------------------- solver loop
\* One pass over the enabled constraints alone, each applied once in map
\* order: the sketch and the error summed.
EnabledPass(S) ==
  SolvePass(S, SeqFilter(S.constraints, {c \in Range(S.constraints) : c.enabled}), 0)

\* The sketch after k such passes.
RECURSIVE Passes(_, _)
Passes(S, k) == IF k = 0 THEN S ELSE EnabledPass(Passes(S, k - 1)).S

\* Pass k, counted from 1, ends with a total error below epsilon.
PassSettles(S, k) == BelowEps(EnabledPass(Passes(S, k - 1)).err)

\* C22: solve makes between 1 and 10 passes; each pass applies every enabled
\* constraint once and no disabled one; no pass before the last one ends
\* with a total error below epsilon, and the last one does unless it is the
\* tenth.
C22_SolveTerminates ==
  [][(last'.op = "solveAllConstraints" /\ Len(constraints) > 0)
     => LET n == Solve(Cur).iterations
        IN /\ n \in 1..maxIterations
           /\ Cur2 = Passes(Cur, n)
           /\ \A k \in 1..(n - 1) : ~PassSettles(Cur, k)
           /\ n < maxIterations => PassSettles(Cur, n)]_vars

\* A solveAllConstraints on the two lines that share a node, each under a
\* vertical constraint, with the disabled horizontal constraint on the line
\* apart: the solve moved nodes, stopped at the tenth pass short of a fixed
\* point (one more solve moves nodes again), and left the line apart slanted.
C22_Witness ==
  /\ last.op = "solveAllConstraints"
  /\ last.changed
  /\ Solve(Cur).S # Cur
  /\ Len(constraints) = 3
  /\ \E i \in 1..Len(constraints) : ~constraints[i].enabled
  /\ HasNode(Cur, 104) /\ HasNode(Cur, 105)
  /\ GetPoint(Cur, 104).y # GetPoint(Cur, 105).y
  /\ GetPoint(Cur, 101).x # 0

\* ------------------------------------------------------ one-pass convergence
\* The step runs the solver: a solveAllConstraints, or an add*Constraint
\* that stored its constraint.
SolverRuns ==
  \/ last'.op = "solveAllConstraints" /\ Len(constraints) > 0
  \/ /\ last'.op \in {"addVerticalConstraint", "addHorizontalConstraint"}
     /\ Len(constraints') = Len(constraints) + 1

\* The sketch the solver starts from in the step.
BeforeSolve == Sk(nodes, entities, constraints', nextId')

\* Every constraint is enabled and on a line whose end nodes resolve, and no
\* two of the same type are on lines that share a node.
NonConflicting(S) ==
  /\ \A i \in 1..Len(S.constraints) :
       /\ S.constraints[i].enabled
       /\ S.constraints[i].type \in {"vertical", "horizontal"}
       /\ ResolvedLine(S, S.constraints[i].entityIds[1])
  /\ NoSharedNode(S)

\* The end nodes of every constrained line agree on the constraint's axis.
AllSatisfied(S) ==
  \A i \in 1..Len(S.constraints) :
    LET e == GetEntity(S, S.constraints[i].entityIds[1])
        axis == IF S.constraints[i].type = "vertical" THEN "x" ELSE "y"
    IN GetNode(S, e.startNodeId)[axis] = GetNode(S, e.endNodeId)[axis]

\* C23: when every constraint is enabled and no two constraints of the same
\* type are on lines that share a node, the sketch after the first solver
\* pass satisfies every constraint, and the solve ends on that sketch (the
\* later passes change no coordinate).
C23_OnePassConvergence ==
  [][(SolverRuns /\ NonConflicting(BeforeSolve))
     => /\ AllSatisfied(EnabledPass(BeforeSolve).S)
        /\ Cur2 = EnabledPass(BeforeSolve).S]_vars

\* A solveAllConstraints that moved nodes under a vertical constraint on one
\* line and a horizontal constraint on another, and left both satisfied.
C23_Witness ==
  /\ last.op = "solveAllConstraints"
  /\ last.changed
  /\ Cardinality(last.moved) >= 4
  /\ NonConflicting(Cur)
  /\ AllSatisfied(Cur)
  /\ \E i, j \in 1..Len(constraints) :
       /\ constraints[i].type = "vertical" /\ constraints[j].type = "horizontal"
       /\ constraints[i].entityIds # constraints[j].entityIds

\* --------------------------------------------------------- cycles reported
\* A square drawn as a polyline, its two diagonals and a tail.
MaxCycleOps == 4

CyclePaths == {<<Pt(0, 0), Pt(8, 0), Pt(8, 8), Pt(0, 8)>>}

CycleLines ==
  {<<Pt(0, 0), Pt(8, 8)>>, <<Pt(8, 0), Pt(0, 8)>>, <<Pt(0, 0), Pt(0, 8)>>,
   <<Pt(8, 8), Pt(16, 8)>>}

InitCycle == Start(MaxCycleOps)

NextCycle ==
  \/ DoAddPolyline(CyclePaths)
  \/ DoAddLine(CycleLines)
  \/ DoRemoveEntity
  \/ DoExportToNode

SpecCycle == InitCycle /\ [][NextCycle]_vars

\* The node-id paths of the contours found by the graph search.
SearchPaths(S) ==
  LET cs == GetClosedContours(S).cycles
  IN [k \in 1..Cardinality({i \in 1..Len(cs) : cs[i].ids # <<>>}) |->
        cs[CHOOSE i \in 1..Len(cs) :
             /\ cs[i].ids # <<>>
             /\ Cardinality({j \in 1..i : cs[j].ids # <<>>}) = k].ids]

\* A line, or two consecutive nodes of a polyline, joins a and b.
Joined(S, a, b) ==
  \E e \in Range(S.entities) :
    \/ e.type = "line" /\ {e.startNodeId, e.endNodeId} = {a, b}
    \/ /\ e.type = "polyline"
       /\ \E k \in 1..Len(PolyEdges(e)) :
            {PolyEdges(e)[k][1], PolyEdges(e)[k][2]} = {a, b}

\* path is a simple cycle of the graph: at least 3 distinct nodes, each
\* joined to the next and the last to the first.
IsCyclePath(S, path) ==
  /\ Len(path) >= 3
  /\ \A i, j \in 1..Len(path) : i # j => path[i] # path[j]
  /\ \A i \in 1..Len(path) : Joined(S, path[i], path[(i % Len(path)) + 1])

\* q is p read from another node of it, in either direction.
SameCycle(p, q) ==
  /\ Len(p) = Len(q)
  /\ \E r \in 0..(Len(p) - 1) :
       \/ \A i \in 1..Len(p) : q[i] = p[((i - 1 + r) % Len(p)) + 1]
       \/ \A i \in 1..Len(p) : q[i] = p[((r + Len(p) - i) % Len(p)) + 1]

\* Every simple cycle of the graph, as the paths that walk it.
CyclePathsOf(S) ==
  UNION {{path \in [1..n -> NodeIds(S)] : IsCyclePath(S, path)} :
           n \in 3..Cardinality(NodeIds(S))}

\* No two contours found by the search are on the same set of nodes.
NoContourTwice(S) ==
  \A i, j \in 1..Len(SearchPaths(S)) :
    i # j => Range(SearchPaths(S)[i]) # Range(SearchPaths(S)[j])

\* Every contour found by the search is a simple cycle of the graph.
ContoursAreCycles(S) ==
  \A i \in 1..Len(SearchPaths(S)) : IsCyclePath(S, SearchPaths(S)[i])

\* Every simple cycle of the graph is among the contours once.
CyclesOnce(S) ==
  \A path \in CyclePathsOf(S) :
    Cardinality({i \in 1..Len(SearchPaths(S)) :
                   SameCycle(SearchPaths(S)[i], path)}) = 1

\* C24: among the contours getClosedContours finds by graph search no two
\* are on the same set of node ids, every one is a simple cycle of at least
\* 3 distinct nodes joined by line or polyline edges, and every cycle of the
\* graph, reached from whichever start node and in whichever direction, is
\* reported exactly once.
C24_CycleDedup ==
  /\ NoContourTwice(Cur)
  /\ ContoursAreCycles(Cur)
  /\ CyclesOnce(Cur)

\* The parts of C24 on the contours reported.
ReportedContoursDistinct == NoContourTwice(Cur) /\ ContoursAreCycles(Cur)

\* ------------------------------------------------------------ search effort
\* The node ids that an edge of the graph ends on, and the nodes an edge
\* joins to one of them.
GraphNodes(S) ==
  UNION {{p[1], p[2]} : p \in Range(EdgePairs(S.entities))}

JoinedTo(S, id) == {b \in GraphNodes(S) : Joined(S, id, b)}

\* The searches of one getClosedContours call: one from each graph node
\* joined to at least two nodes and none from any other, each of at least
\* one and at most STEP_LIMIT paths popped.
SearchesBounded(S) ==
  LET sr == GetClosedContours(S).searched
  IN /\ \A i, j \in 1..Len(sr) : i # j => sr[i].start # sr[j].start
     /\ {sr[i].start : i \in 1..Len(sr)}
          = {id \in GraphNodes(S) : Cardinality(JoinedTo(S, id)) >= 2}
     /\ \A i \in 1..Len(sr) : sr[i].steps \in 1..STEP_LIMIT

C26_NodesApart ==
  \A i, j \in 1..Len(nodes) :
    i # j => ~(/\ Abs(nodes[i].x - nodes[j].x) < SNAP_DISTANCE
               /\ Abs(nodes[i].y - nodes[j].y) < SNAP_DISTANCE)

\* ------------------------------------------------ references of every type
\* The node ids an entity of the data model refers to, whatever its type.
RefsOf(e) ==
  UNION {IF f \in {"startNodeId", "endNodeId", "cornerNodeId", "centerNodeId", "nodeId"}
         THEN {e[f]}
         ELSE IF f \in {"nodeIds", "controlPointNodeIds"} THEN Range(e[f])
         ELSE {} : f \in DOMAIN e}

\* C27: removeEntity deletes no node that an entity still stored refers to,
\* arcs and splines brought in by loadFromNode included.
C27_CleanupCountsEveryType ==
  [][last'.op = "removeEntity"
       => \A e \in Range(entities') :
            \A id \in RefsOf(e) : HasNode(Cur, id) => HasNode(Cur2, id)]_vars

\* --------------------------------------------------- constraints and entities
\* Every stored constraint is on an entity that is stored and is a line.
ConstraintsOnLines(S) ==
  \A i \in 1..Len(S.constraints) :
    \A id \in Range(S.constraints[i].entityIds) :
      HasEntity(S, id) /\ GetEntity(S, id).type = "line"

\* The entities of S that T no longer holds.
RemovedEntities(S, T) == EntIds(S) \ EntIds(T)

\* C28: every stored constraint is on a stored line; and a removeEntity or
\* trimEntity step deletes exactly the constraints on the entities it
\* removes.
C28_ConstraintIntegrity ==
  /\ []ConstraintsOnLines(Cur)
  /\ [][last'.op \in {"removeEntity", "trimEntity"}
          => Range(constraints')
               = {c \in Range(constraints) :
                    Range(c.entityIds) \cap RemovedEntities(Cur, Cur2) = {}}]_vars

\* Two lines that cross, constraints on them, removal and trim.
MaxBoundOps == 5

BoundLines == {<<Pt(0, 0), Pt(8, 0)>>, <<Pt(4, -4), Pt(4, 4)>>}

InitBound == Start(MaxBoundOps)

NextBound ==
  \/ DoAddLine(BoundLines)
  \/ DoAddVerticalConstraint
  \/ DoAddHorizontalConstraint
  \/ DoRemoveEntity
  \/ DoTrimEntity({Pt(7, 1)})

SpecBound == InitBound /\ [][NextBound]_vars

\* A trim that cut the horizontal line where the vertical one crosses it,
\* each under a constraint of its own: five operations used eleven ids, for
\* four nodes, two lines, two constraints and the two nodes and the line of
\* the fragment kept; the target and its constraint are gone, the constraint
\* on the other line is still there.
C28_Witness ==
  /\ last.op = "trimEntity"
  /\ last.changed
  /\ ~HasEntity(Cur, last.id)
  /\ ops = 0
  /\ nextId = 12
  /\ Len(entities) = 2
  /\ Len(constraints) = 1
  /\ HasEntity(Cur, constraints[1].entityIds[1])
  /\ GetPoint(Cur, LastEntity.startNodeId) = Pt(0, 0)
  /\ GetPoint(Cur, LastEntity.endNodeId) = Pt(4, 0)

\* ---------------------------------------------------- the end that extends
\* The node of the end that calculateExtend extended: the end node when it
\* extended p2, the start node when it extended p1.
ExtendedNodeId(S, targetId, clickPoint) ==
  LET target == GetEntity(S, targetId)
      pStart == GetPoint(S, target.startNodeId)
      pEnd == GetPoint(S, target.endNodeId)
  IN IF ExtendP2(Seg(pStart, pEnd), clickPoint) THEN target.endNodeId
     ELSE target.startNodeId

\* The intersection point calculateExtend returned for the end it extended.
ExtendedTo(S, targetId, clickPoint) ==
  LET target == GetEntity(S, targetId)
      pStart == GetPoint(S, target.startNodeId)
      pEnd == GetPoint(S, target.endNodeId)
      result == ExtendResult(S, targetId, clickPoint)
  IN IF ExtendP2(Seg(pStart, pEnd), clickPoint) THEN result.p2 ELSE result.p1

\* C29: for every click point, one equidistant from both ends of the line
\* included, whenever calculateExtend returns a result the node of the end
\* that calculateExtend extended is at the returned intersection point
\* after extendEntity.
C29_EndpointChoice ==
  [][(last'.op = "extendEntity" /\ ExtendFound(Cur, last'.id, last'.a))
     => GetPoint(Cur2, ExtendedNodeId(Cur, last'.id, last'.a))
          = ExtendedTo(Cur, last'.id, last'.a)]_vars

\* The same with the clicks equidistant from both ends left out.
EndpointChoiceOffCentre ==
  [][(/\ last'.op = "extendEntity"
      /\ ExtendFound(Cur, last'.id, last'.a)
      /\ LET target == GetEntity(Cur, last'.id)
         IN DistSq(last'.a, GetPoint(Cur, target.startNodeId))
              # DistSq(last'.a, GetPoint(Cur, target.endNodeId)))
     => GetPoint(Cur2, ExtendedNodeId(Cur, last'.id, last'.a))
          = ExtendedTo(Cur, last'.id, last'.a)]_vars

\* ------------------------------------------------------------ fixed nodes
\* SketchNode.fixed is optional: the node's fixed flag is true.
IsFixed(n) == "fixed" \in DOMAIN n /\ n.fixed

FixedNodeIds(S) == {id \in NodeIds(S) : IsFixed(GetNode(S, id))}

\* C30: the constraint solver never changes the coordinates of a node whose
\* fixed flag is true: in a step that runs the solver every fixed node has
\* the coordinates it had before, so on a line with one fixed end only the
\* other end moves and with both ends fixed nothing moves.
C30_FixedNodesStay ==
  [][SolverRuns
     => \A id \in FixedNodeIds(BeforeSolve) :
          HasNode(Cur2, id) /\ GetPoint(Cur2, id) = GetPoint(BeforeSolve, id)]_vars

\* The solver leaves the fixed flags themselves as they were.
FixedFlagsKept ==
  [][SolverRuns => FixedNodeIds(Cur2) = FixedNodeIds(BeforeSolve)]_vars

====
